---- MODULE Spec2Model ----
(***************************************************************************)
(* ytsummary: the transcript acquisition pipeline (identifier resolution,  *)
(* availability classification, caption-track selection, caption           *)
(* normalisation) and the cache-aside handlers around it.                  *)
(*                                                                         *)
(* Go strings are TLA+ strings; Len, SubSeq and \o act on them character   *)
(* by character, so prefix and substring tests are computed, not assumed.  *)
(* A nil error is the empty string; every error the code builds has a      *)
(* non-empty message.                                                      *)
(***************************************************************************)
EXTENDS Integers, Sequences, FiniteSets, TLC

VARIABLES cache, db, clock, lastSuccessTime, req, call, limiter, history

vars == <<cache, db, clock, lastSuccessTime, req, call, limiter, history>>

(***************************************************************************)
(* Bounds of the model.                                                    *)
(***************************************************************************)
\* Requests (HTTP requests or CLI runs) started in one behaviour.
MaxRequests == 2
\* Longest caption-track list handed to selectCaptionTrack on its own.
MaxTracks == 3
\* The longest caption document, in caption lines.
MaxLines == 4

\* Requests of one client IP that reach the rate limiter.
MaxArrivals == 7

\* Token intervals that pass one at a time.
MaxTicks == 2

\* Times the clock advances between the steps of the health endpoint and of
\* the requests that record a success.
MaxAdvances == 3

(***************************************************************************)
(* strings package                                                         *)
(***************************************************************************)
HasPrefix(s, prefix) ==
    /\ Len(prefix) <= Len(s)
    /\ SubSeq(s, 1, Len(prefix)) = prefix

Contains(s, substr) ==
    \E i \in 1..(Len(s) - Len(substr) + 1) : SubSeq(s, i, i + Len(substr) - 1) = substr

\* Index of the first occurrence of the one-character string c in s, 0 if none.
IndexOf(s, c) ==
    LET hits == {i \in 1..Len(s) : SubSeq(s, i, i) = c}
    IN  IF hits = {} THEN 0 ELSE CHOOSE i \in hits : \A j \in hits : i <= j

\* strings.Split(s, sep)[0] for a one-character separator.
SplitFirst(s, sep) ==
    IF IndexOf(s, sep) = 0 THEN s ELSE SubSeq(s, 1, IndexOf(s, sep) - 1)

UpperLetters == "ABCDEFGHIJKLMNOPQRSTUVWXYZ"
LowerLetters == "abcdefghijklmnopqrstuvwxyz"

ToLowerChar(c) ==
    IF IndexOf(UpperLetters, c) = 0 THEN c
    ELSE SubSeq(LowerLetters, IndexOf(UpperLetters, c), IndexOf(UpperLetters, c))

RECURSIVE ToLower(_)
ToLower(s) ==
    IF Len(s) = 0 THEN s
    ELSE ToLowerChar(SubSeq(s, 1, 1)) \o ToLower(SubSeq(s, 2, Len(s)))

\* strings.TrimSpace, for the blank characters the model's inputs use.
RECURSIVE TrimSpace(_)
TrimSpace(s) ==
    IF Len(s) = 0 THEN s
    ELSE IF SubSeq(s, 1, 1) = " " THEN TrimSpace(SubSeq(s, 2, Len(s)))
    ELSE IF SubSeq(s, Len(s), Len(s)) = " " THEN TrimSpace(SubSeq(s, 1, Len(s) - 1))
    ELSE s

(***************************************************************************)
(* Identifier resolver                                                     *)
(***************************************************************************)
IDLen == 11
IDChars == {SubSeq(LowerLetters, i, i) : i \in 1..26}
           \cup {SubSeq(UpperLetters, i, i) : i \in 1..26}
           \cup {SubSeq("0123456789_-", i, i) : i \in 1..12}

IsIDAt(s, i) ==
    /\ i + IDLen - 1 <= Len(s)
    /\ \A k \in 0..(IDLen - 1) : SubSeq(s, i + k, i + k) \in IDChars

\* The literal part of each pattern, in the order the code tries them; the
\* optional "m." of the first pattern does not change what is captured.
URLPatterns == <<
    {"youtube.com/watch?v="},
    {"youtu.be/"},
    {"youtube.com/embed/", "youtube.com/v/"},
    {"youtube.com/shorts/"},
    {"youtube.com/live/"} >>

\* A variant of FindStringSubmatch whose pattern ends with "$".
FindStringSubmatch_Anchored(url, p) ==
    LET m == {<<j, l>> \in (1..Len(url)) \X URLPatterns[p] :
                  /\ HasPrefix(SubSeq(url, j, Len(url)), l)
                  /\ IsIDAt(url, j + Len(l))
                  /\ j + Len(l) + IDLen - 1 = Len(url)}
    IN  IF m = {} THEN ""
        ELSE LET first == CHOOSE x \in m : \A y \in m : x[1] <= y[1]
             IN  SubSeq(url, first[1] + Len(first[2]), first[1] + Len(first[2]) + IDLen - 1)

\* re.FindStringSubmatch: the captured group of the leftmost match, "" if none.
FindStringSubmatch(url, p) ==
    LET m == {<<j, l>> \in (1..Len(url)) \X URLPatterns[p] :
                  /\ HasPrefix(SubSeq(url, j, Len(url)), l)
                  /\ IsIDAt(url, j + Len(l))}
    IN  IF m = {} THEN ""
        ELSE LET first == CHOOSE x \in m : \A y \in m : x[1] <= y[1]
             IN  SubSeq(url, first[1] + Len(first[2]), first[1] + Len(first[2]) + IDLen - 1)

RECURSIVE TryPatterns(_, _)
TryPatterns(url, p) ==
    IF p > Len(URLPatterns) THEN ""
    ELSE IF FindStringSubmatch(url, p) # "" THEN FindStringSubmatch(url, p)
    ELSE TryPatterns(url, p + 1)

extractVideoID(url) ==
    IF TryPatterns(url, 1) # "" THEN [id |-> TryPatterns(url, 1), err |-> ""]
    ELSE IF Len(url) = IDLen /\ IsIDAt(url, 1) THEN [id |-> url, err |-> ""]
    ELSE [id |-> "", err |-> "could not extract video ID from: " \o url]

(***************************************************************************)
(* Availability classifier                                                 *)
(***************************************************************************)
\* A variant of checkPlayability that looks for "age" in the reason as it is
\* written.
checkPlayability_CaseSensitive(pr) ==
    LET status == pr.status
        reason == pr.reason
    IN  IF status = "UNPLAYABLE" THEN "Private video or unavailable"
        ELSE IF status = "LOGIN_REQUIRED" THEN
            IF Contains(reason, "age") THEN "age-restricted video"
            ELSE "login required to view this video"
        ELSE IF status = "ERROR" THEN "video error: " \o pr.reason
        ELSE IF pr.live # "" THEN "live streams are not supported"
        ELSE ""

\* pr is the YouTubePlayerResponse: [videoId, title, status, reason, live,
\* tracks], live being LiveStreamabilityRenderer.VideoID.
checkPlayability(pr) ==
    LET status == pr.status
        reason == ToLower(pr.reason)
    IN  IF status = "UNPLAYABLE" THEN "Private video or unavailable"
        ELSE IF status = "LOGIN_REQUIRED" THEN
            IF Contains(reason, "age") THEN "age-restricted video"
            ELSE "login required to view this video"
        ELSE IF status = "ERROR" THEN "video error: " \o pr.reason
        ELSE IF pr.live # "" THEN "live streams are not supported"
        ELSE ""

(***************************************************************************)
(* Caption track selector                                                  *)
(***************************************************************************)
NilTrack == [BaseURL |-> "", LanguageCode |-> "", Kind |-> ""]

\* The index a loop over the list returns at: the least of the indexes that
\* satisfy its test, 0 when the loop falls through.
FirstIndex(hits) ==
    IF hits = {} THEN 0 ELSE CHOOSE i \in hits : \A j \in hits : i <= j

\* A variant of selectCaptionTrack without the fallback to the first track.
selectCaptionTrack_NoFallback(tracks, lang) ==
    LET exact == FirstIndex({i \in 1..Len(tracks) : tracks[i].LanguageCode = lang})
        prefix == FirstIndex({i \in 1..Len(tracks) :
                      \/ HasPrefix(tracks[i].LanguageCode, lang \o "-")
                      \/ HasPrefix(tracks[i].LanguageCode, lang)})
        langPrefix == SplitFirst(lang, "-")
        base == FirstIndex({i \in 1..Len(tracks) : tracks[i].LanguageCode = langPrefix})
    IN  IF Len(tracks) = 0
            THEN [track |-> NilTrack, err |-> "no subtitles available for this video"]
        ELSE IF exact # 0 THEN [track |-> tracks[exact], err |-> ""]
        ELSE IF prefix # 0 THEN [track |-> tracks[prefix], err |-> ""]
        ELSE IF base # 0 THEN [track |-> tracks[base], err |-> ""]
        ELSE [track |-> NilTrack, err |-> "no subtitles available for this video"]

\* A variant of selectCaptionTrack with one loop for the exact and the prefix
\* test.
selectCaptionTrack_SinglePass(tracks, lang) ==
    LET first == FirstIndex({i \in 1..Len(tracks) :
                      \/ tracks[i].LanguageCode = lang
                      \/ HasPrefix(tracks[i].LanguageCode, lang \o "-")
                      \/ HasPrefix(tracks[i].LanguageCode, lang)})
        langPrefix == SplitFirst(lang, "-")
        base == FirstIndex({i \in 1..Len(tracks) : tracks[i].LanguageCode = langPrefix})
    IN  IF Len(tracks) = 0
            THEN [track |-> NilTrack, err |-> "no subtitles available for this video"]
        ELSE IF first # 0 THEN [track |-> tracks[first], err |-> ""]
        ELSE IF base # 0 THEN [track |-> tracks[base], err |-> ""]
        ELSE [track |-> tracks[1], err |-> ""]

selectCaptionTrack(tracks, lang) ==
    LET exact == FirstIndex({i \in 1..Len(tracks) : tracks[i].LanguageCode = lang})
        prefix == FirstIndex({i \in 1..Len(tracks) :
                      \/ HasPrefix(tracks[i].LanguageCode, lang \o "-")
                      \/ HasPrefix(tracks[i].LanguageCode, lang)})
        langPrefix == SplitFirst(lang, "-")
        base == FirstIndex({i \in 1..Len(tracks) : tracks[i].LanguageCode = langPrefix})
    IN  IF Len(tracks) = 0
            THEN [track |-> NilTrack, err |-> "no subtitles available for this video"]
        ELSE IF exact # 0 THEN [track |-> tracks[exact], err |-> ""]
        ELSE IF prefix # 0 THEN [track |-> tracks[prefix], err |-> ""]
        ELSE IF base # 0 THEN [track |-> tracks[base], err |-> ""]
        ELSE [track |-> tracks[1], err |-> ""]

(***************************************************************************)
(* Caption format normaliser.  Caption content is the list of its lines    *)
(* (strings.Split(content, "\n")); an XML element sits on one line.        *)
(***************************************************************************)
RECURSIVE Join(_, _)
Join(lines, sep) ==
    IF Len(lines) = 0 THEN ""
    ELSE IF Len(lines) = 1 THEN lines[1]
    ELSE lines[1] \o sep \o Join(Tail(lines), sep)

\* Index of the first occurrence of substr in s, 0 if none.
Index(s, substr) ==
    FirstIndex({i \in 1..(Len(s) - Len(substr) + 1) :
                    SubSeq(s, i, i + Len(substr) - 1) = substr})

HTMLEntities == <<
    <<"&amp;", "&">>, <<"&#39;", "'">>, <<"&quot;", "\"">>, <<"&lt;", "<">>, <<"&gt;", ">">> >>

\* html.UnescapeString over the entities of HTMLEntities.
RECURSIVE UnescapeString(_)
UnescapeString(s) ==
    IF Len(s) = 0 THEN s
    ELSE LET e == {k \in 1..Len(HTMLEntities) : HasPrefix(s, HTMLEntities[k][1])}
         IN  IF e = {} THEN SubSeq(s, 1, 1) \o UnescapeString(SubSeq(s, 2, Len(s)))
             ELSE LET k == CHOOSE x \in e : TRUE
                  IN  HTMLEntities[k][2]
                        \o UnescapeString(SubSeq(s, Len(HTMLEntities[k][1]) + 1, Len(s)))

\* The submatch of <tag[^>]*>([^<]*)</tag> in a line: [ok, text].
ElementMatch(line, tag) ==
    LET open == Index(line, "<" \o tag)
        afterOpen == SubSeq(line, open + Len(tag) + 1, Len(line))
        gt == IndexOf(afterOpen, ">")
        inner == SubSeq(afterOpen, gt + 1, Len(afterOpen))
        lt == IndexOf(inner, "<")
    IN  IF open = 0 \/ gt = 0 \/ lt = 0 THEN [ok |-> FALSE, text |-> ""]
        ELSE IF HasPrefix(SubSeq(inner, lt, Len(inner)), "</" \o tag \o ">")
            THEN [ok |-> TRUE, text |-> SubSeq(inner, 1, lt - 1)]
        ELSE [ok |-> FALSE, text |-> ""]

\* regexp.FindAllStringSubmatch: the submatches, in document order.
RECURSIVE FindAllElements(_, _)
FindAllElements(lines, tag) ==
    IF Len(lines) = 0 THEN <<>>
    ELSE IF ElementMatch(lines[1], tag).ok
        THEN <<ElementMatch(lines[1], tag).text>> \o FindAllElements(Tail(lines), tag)
    ELSE FindAllElements(Tail(lines), tag)

\* A variant of KeepLines that drops every line it has seen before.
KeepLines_SeenBefore(texts, lastLine) ==
    LET Keep(i) == /\ texts[i] # ""
                   /\ texts[i] # lastLine
                   /\ \A j \in 1..(i - 1) : texts[j] # texts[i]
        kept == SelectSeq([i \in 1..Len(texts) |-> i], Keep)
    IN  [k \in 1..Len(kept) |-> texts[kept[k]]]

\* The loop shared by both normalisers: keep a line unless it is empty or
\* equal to the last kept line.
RECURSIVE KeepLines(_, _)
KeepLines(texts, lastLine) ==
    IF Len(texts) = 0 THEN <<>>
    ELSE IF texts[1] # "" /\ texts[1] # lastLine
        THEN <<texts[1]>> \o KeepLines(Tail(texts), texts[1])
    ELSE KeepLines(Tail(texts), lastLine)

parseTimedTextLines(content) ==
    LET p == FindAllElements(content, "p")
        matches == IF Len(p) = 0 THEN FindAllElements(content, "text") ELSE p
        decoded == [i \in 1..Len(matches) |-> TrimSpace(UnescapeString(matches[i]))]
    IN  KeepLines(decoded, "")

parseTimedText(content) == Join(parseTimedTextLines(content), " ")

Digits == {SubSeq("0123456789", i, i) : i \in 1..10}

IsDigitAt(s, i) == i <= Len(s) /\ SubSeq(s, i, i) \in Digits

\* ^\d{2}:\d{2}:\d{2}
timestampRe(line) ==
    /\ \A i \in {1, 2, 4, 5, 7, 8} : IsDigitAt(line, i)
    /\ Len(line) >= 8
    /\ SubSeq(line, 3, 3) = ":"
    /\ SubSeq(line, 6, 6) = ":"

\* ^\d+$
numberRe(line) == Len(line) > 0 /\ \A i \in 1..Len(line) : IsDigitAt(line, i)

\* ^(WEBVTT|Kind:|Language:)
headerRe(line) ==
    HasPrefix(line, "WEBVTT") \/ HasPrefix(line, "Kind:") \/ HasPrefix(line, "Language:")

\* tagRe.ReplaceAllString(line, ""), tagRe being <[^>]+>
RECURSIVE StripTags(_)
StripTags(line) ==
    LET lt == IndexOf(line, "<")
        rest == SubSeq(line, lt + 1, Len(line))
        gt == IndexOf(rest, ">")
    IN  IF lt = 0 THEN line
        ELSE IF gt > 1
            THEN SubSeq(line, 1, lt - 1) \o StripTags(SubSeq(rest, gt + 1, Len(rest)))
        ELSE SubSeq(line, 1, lt) \o StripTags(rest)

cleanSRTLines(content) ==
    LET trimmed == [i \in 1..Len(content) |-> TrimSpace(content[i])]
        \* a skipped line contributes "", which the shared loop drops
        text == [i \in 1..Len(content) |->
                    IF \/ trimmed[i] = ""
                       \/ numberRe(trimmed[i])
                       \/ timestampRe(trimmed[i])
                       \/ headerRe(trimmed[i])
                    THEN ""
                    ELSE TrimSpace(StripTags(trimmed[i]))]
    IN  KeepLines(text, "")

cleanSRT(content) == Join(cleanSRTLines(content), " ")

ContentContains(content, marker) ==
    \E i \in 1..Len(content) : Contains(content[i], marker)

\* The dispatch of fetchTranscriptDirect.
normalize(content) ==
    IF ContentContains(content, "<timedtext") \/ ContentContains(content, "<transcript")
        THEN parseTimedText(content)
    ELSE IF ContentContains(content, "WEBVTT") THEN cleanSRT(content)
    ELSE parseTimedText(content)

(***************************************************************************)
(* Internal-API client.  What the platform answers is an input: m for the  *)
(* metadata POST, c for the caption GET.                                   *)
(*   m = [net, status, json, pr]   c = [net, status, body]                 *)
(* net is the transport error text ("" when the round trip succeeds), body *)
(* the list of the response's lines.                                       *)
(***************************************************************************)
NilPlayerResponse ==
    [videoId |-> "", title |-> "", status |-> "", reason |-> "", live |-> "",
     tracks |-> <<>>]

fetchPlayerResponse(videoID, m) ==
    IF m.net # ""
        THEN [pr |-> NilPlayerResponse, err |-> "failed to fetch player response: " \o m.net]
    ELSE IF m.status = 429
        THEN [pr |-> NilPlayerResponse, err |-> "rate limited by YouTube (429)"]
    ELSE IF m.status # 200
        THEN [pr |-> NilPlayerResponse,
              err |-> "innertube API error: status " \o ToString(m.status)]
    ELSE IF ~m.json
        THEN [pr |-> NilPlayerResponse,
              err |-> "failed to parse player response: unexpected end of JSON input"]
    ELSE [pr |-> m.pr, err |-> ""]

\* len(body) == 0
EmptyBody(body) == Len(body) = 0 \/ (Len(body) = 1 /\ body[1] = "")

fetchCaptions(captionURL, c) ==
    IF c.net # "" THEN [content |-> <<>>, err |-> "failed to fetch captions: " \o c.net]
    ELSE IF c.status = 429 THEN [content |-> <<>>, err |-> "rate limited by YouTube (429)"]
    ELSE IF c.status # 200
        THEN [content |-> <<>>,
              err |-> "failed to fetch captions: status " \o ToString(c.status)]
    ELSE IF EmptyBody(c.body) THEN [content |-> <<>>, err |-> "empty caption response"]
    ELSE [content |-> c.body, err |-> ""]

(***************************************************************************)
(* The fetch pipeline                                                      *)
(***************************************************************************)
NilFetchResult == [VideoID |-> "", Title |-> "", Transcript |-> "", Language |-> ""]

\* A variant of fetchTranscriptDirect that classifies the video only when it
\* has no caption track.
fetchTranscriptDirect_ClassifyWithoutTracks(url, language, m, c) ==
    LET vid == extractVideoID(url)
        meta == fetchPlayerResponse(vid.id, m)
        tracks == meta.pr.tracks
        sel == selectCaptionTrack(tracks, language)
        capt == fetchCaptions(sel.track.BaseURL, c)
        transcript == normalize(capt.content)
        post == [method |-> "POST", target |-> vid.id]
        get == [method |-> "GET", target |-> sel.track.BaseURL]
        fail(e, calls) == [result |-> NilFetchResult, err |-> e, calls |-> calls]
    IN  IF vid.err # "" THEN fail("invalid YouTube URL: " \o vid.err, <<>>)
        ELSE IF meta.err # "" THEN fail(meta.err, <<post>>)
        ELSE IF Len(tracks) = 0 /\ checkPlayability(meta.pr) # ""
            THEN fail(checkPlayability(meta.pr), <<post>>)
        ELSE IF Len(tracks) = 0 THEN fail("no subtitles available for this video", <<post>>)
        ELSE IF sel.err # "" THEN fail(sel.err, <<post>>)
        ELSE IF capt.err # "" THEN fail(capt.err, <<post, get>>)
        ELSE IF transcript = "" THEN fail("failed to parse caption content", <<post, get>>)
        ELSE [result |-> [VideoID |-> meta.pr.videoId,
                          Title |-> meta.pr.title,
                          Transcript |-> transcript,
                          Language |-> sel.track.LanguageCode],
              err |-> "",
              calls |-> <<post, get>>]

\* A variant of fetchTranscriptDirect that reports captions without text as
\* a video without subtitles.
fetchTranscriptDirect_EmptyTextNoSubtitles(url, language, m, c) ==
    LET vid == extractVideoID(url)
        meta == fetchPlayerResponse(vid.id, m)
        tracks == meta.pr.tracks
        sel == selectCaptionTrack(tracks, language)
        capt == fetchCaptions(sel.track.BaseURL, c)
        transcript == normalize(capt.content)
        post == [method |-> "POST", target |-> vid.id]
        get == [method |-> "GET", target |-> sel.track.BaseURL]
        fail(e, calls) == [result |-> NilFetchResult, err |-> e, calls |-> calls]
    IN  IF vid.err # "" THEN fail("invalid YouTube URL: " \o vid.err, <<>>)
        ELSE IF meta.err # "" THEN fail(meta.err, <<post>>)
        ELSE IF checkPlayability(meta.pr) # "" THEN fail(checkPlayability(meta.pr), <<post>>)
        ELSE IF Len(tracks) = 0 THEN fail("no subtitles available for this video", <<post>>)
        ELSE IF sel.err # "" THEN fail(sel.err, <<post>>)
        ELSE IF capt.err # "" THEN fail(capt.err, <<post, get>>)
        ELSE IF transcript = ""
            THEN fail("no subtitles available for this video", <<post, get>>)
        ELSE [result |-> [VideoID |-> meta.pr.videoId,
                          Title |-> meta.pr.title,
                          Transcript |-> transcript,
                          Language |-> sel.track.LanguageCode],
              err |-> "",
              calls |-> <<post, get>>]

\* A variant of fetchTranscriptDirect that repeats the metadata call once
\* when it fails.
fetchTranscriptDirect_RetryMetadata(url, language, m, c) ==
    LET vid == extractVideoID(url)
        meta == fetchPlayerResponse(vid.id, m)
        tracks == meta.pr.tracks
        sel == selectCaptionTrack(tracks, language)
        capt == fetchCaptions(sel.track.BaseURL, c)
        transcript == normalize(capt.content)
        post == [method |-> "POST", target |-> vid.id]
        get == [method |-> "GET", target |-> sel.track.BaseURL]
        fail(e, calls) == [result |-> NilFetchResult, err |-> e, calls |-> calls]
    IN  IF vid.err # "" THEN fail("invalid YouTube URL: " \o vid.err, <<>>)
        ELSE IF meta.err # "" THEN fail(meta.err, <<post, post>>)
        ELSE IF checkPlayability(meta.pr) # "" THEN fail(checkPlayability(meta.pr), <<post>>)
        ELSE IF Len(tracks) = 0 THEN fail("no subtitles available for this video", <<post>>)
        ELSE IF sel.err # "" THEN fail(sel.err, <<post>>)
        ELSE IF capt.err # "" THEN fail(capt.err, <<post, get>>)
        ELSE IF transcript = "" THEN fail("failed to parse caption content", <<post, get>>)
        ELSE [result |-> [VideoID |-> meta.pr.videoId,
                          Title |-> meta.pr.title,
                          Transcript |-> transcript,
                          Language |-> sel.track.LanguageCode],
              err |-> "",
              calls |-> <<post, get>>]

\* Besides (result, err), the value records the outbound HTTP calls the
\* function issued, in order.
fetchTranscriptDirect(url, language, m, c) ==
    LET vid == extractVideoID(url)
        meta == fetchPlayerResponse(vid.id, m)
        tracks == meta.pr.tracks
        sel == selectCaptionTrack(tracks, language)
        capt == fetchCaptions(sel.track.BaseURL, c)
        transcript == normalize(capt.content)
        post == [method |-> "POST", target |-> vid.id]
        get == [method |-> "GET", target |-> sel.track.BaseURL]
        fail(e, calls) == [result |-> NilFetchResult, err |-> e, calls |-> calls]
    IN  IF vid.err # "" THEN fail("invalid YouTube URL: " \o vid.err, <<>>)
        ELSE IF meta.err # "" THEN fail(meta.err, <<post>>)
        ELSE IF checkPlayability(meta.pr) # "" THEN fail(checkPlayability(meta.pr), <<post>>)
        ELSE IF Len(tracks) = 0 THEN fail("no subtitles available for this video", <<post>>)
        ELSE IF sel.err # "" THEN fail(sel.err, <<post>>)
        ELSE IF capt.err # "" THEN fail(capt.err, <<post, get>>)
        ELSE IF transcript = "" THEN fail("failed to parse caption content", <<post, get>>)
        ELSE [result |-> [VideoID |-> meta.pr.videoId,
                          Title |-> meta.pr.title,
                          Transcript |-> transcript,
                          Language |-> sel.track.LanguageCode],
              err |-> "",
              calls |-> <<post, get>>]

\* fetchTranscript returns (result.Transcript, err); `direct` keeps the value
\* of fetchTranscriptDirect it was computed from.
fetchTranscript(url, m, c) ==
    LET direct == fetchTranscriptDirect(url, "en", m, c)
    IN  [transcript |-> IF direct.err # "" THEN "" ELSE direct.result.Transcript,
         err |-> direct.err,
         direct |-> direct]

(***************************************************************************)
(* HTTP layer                                                              *)
(***************************************************************************)
defaultLanguage == "en"

ErrNoCaptions == "no_captions"
ErrVideoUnavailable == "video_unavailable"
ErrAgeRestricted == "age_restricted"
ErrRateLimited == "rate_limited"
ErrScrapeFailed == "scrape_failed"
ErrInvalidRequest == "invalid_request"

NilResponse ==
    [status |-> 0, error |-> "", message |-> "", video_id |-> "", title |-> "",
     transcript |-> "", summary |-> "", language |-> "", cached |-> FALSE]

writeError(status, code, message) ==
    [NilResponse EXCEPT !.status = status, !.error = code, !.message = message]

writeErrorWithVideo(status, code, message, videoID) ==
    [NilResponse EXCEPT !.status = status, !.error = code, !.message = message,
                        !.video_id = videoID]

handleFetchError(err, videoID) ==
    IF Contains(err, "no subtitles available")
        THEN writeErrorWithVideo(404, ErrNoCaptions,
                                 "This video has no captions available", videoID)
    ELSE IF Contains(err, "Private video")
        THEN writeErrorWithVideo(404, ErrVideoUnavailable,
                                 "Video is private or unavailable", videoID)
    ELSE IF Contains(err, "age-restricted")
        THEN writeErrorWithVideo(403, ErrAgeRestricted, "Video is age-restricted", videoID)
    ELSE IF Contains(err, "429") \/ Contains(err, "rate")
        THEN writeErrorWithVideo(429, ErrRateLimited,
                                 "Rate limited by YouTube, try again later", videoID)
    ELSE writeErrorWithVideo(502, ErrScrapeFailed, err, videoID)

\* body = [json, url, language]: whether the body decodes, and its fields.
\* Time is counted in units of 1/UnitsPerSecond seconds from the zero time.
UnitsPerSecond == 2

\* if resp.LastSuccessAgeSeconds > 3600
DegradedAfterSeconds == 3600

\* int64(time.Since(t).Seconds()): whole seconds, the fraction dropped.
SinceSeconds(now, t) == (now - t) \div UnitsPerSecond

\* A variant of handleHealth without the IsZero test: the zero time counts as
\* a success long ago.
handleHealth_ZeroTimeIsOld(stats, last, start, now) ==
    LET status == IF stats.err # "" THEN "unhealthy" ELSE "ok"
        age == SinceSeconds(now, last)
    IN  [http |-> 200,
         status |-> IF age > DegradedAfterSeconds /\ status = "ok" THEN "degraded"
                    ELSE status,
         cache_entries |-> IF stats.err # "" THEN 0 ELSE stats.count,
         uptime_seconds |-> SinceSeconds(now, start),
         last_success_age_seconds |-> age]

\* The response of GET /health: stats is what getCacheStats returned, last
\* is lastSuccessTime (0 the zero time), start is serverStartTime.
handleHealth(stats, last, start, now) ==
    LET status == IF stats.err # "" THEN "unhealthy" ELSE "ok"
        age == IF last = 0 THEN 0 ELSE SinceSeconds(now, last)
    IN  [http |-> 200,
         status |-> IF last # 0 /\ age > DegradedAfterSeconds /\ status = "ok"
                        THEN "degraded"
                    ELSE status,
         cache_entries |-> IF stats.err # "" THEN 0 ELSE stats.count,
         uptime_seconds |-> SinceSeconds(now, start),
         last_success_age_seconds |-> age]

\* strings.TrimPrefix
TrimPrefix(s, prefix) ==
    IF HasPrefix(s, prefix) THEN SubSeq(s, Len(prefix) + 1, Len(s)) ELSE s

\* [status, error, next]: the answer of the middleware startServer builds
\* around a handler, and whether the handler ran (next; status 0 then, the
\* answer being the handler's).
authMiddleware(apiKey, r) ==
    LET providedKey == IF r.xAPIKey # "" THEN r.xAPIKey
                       ELSE TrimPrefix(r.authorization, "Bearer ")
    IN  IF apiKey # "" /\ providedKey # apiKey
            THEN [status |-> 401, error |-> "unauthorized", next |-> FALSE]
            ELSE [status |-> 0, error |-> "", next |-> TRUE]

\* A variant of parseRequest that passes a URL it cannot resolve on as the
\* identifier instead of failing.
parseRequest_UnresolvedAccepted(body) ==
    IF ~body.json
        THEN [videoID |-> "", lang |-> "", err |-> "invalid JSON: unexpected EOF"]
    ELSE IF body.url = "" THEN [videoID |-> "", lang |-> "", err |-> "url is required"]
    ELSE [videoID |-> IF extractVideoID(body.url).err # "" THEN body.url
                      ELSE extractVideoID(body.url).id,
          lang |-> IF body.language = "" THEN defaultLanguage ELSE body.language,
          err |-> ""]

parseRequest(body) ==
    IF ~body.json
        THEN [videoID |-> "", lang |-> "", err |-> "invalid JSON: unexpected EOF"]
    ELSE IF body.url = "" THEN [videoID |-> "", lang |-> "", err |-> "url is required"]
    ELSE IF extractVideoID(body.url).err # ""
        THEN [videoID |-> "", lang |-> "",
              err |-> "invalid YouTube URL: " \o extractVideoID(body.url).err]
    ELSE [videoID |-> extractVideoID(body.url).id,
          lang |-> IF body.language = "" THEN defaultLanguage ELSE body.language,
          err |-> ""]

(***************************************************************************)
(* Persistent cache store.  `cache` is the transcripts table: a function   *)
(* from the primary key <<video_id, language>> to the row's title and      *)
(* transcript.  A handle is "nil" or "open"; io names how the disk answers *)
(* ("ok" or the step that fails).                                          *)
(***************************************************************************)
initCache(io) ==
    IF io = "mkdir" THEN [db |-> "nil", err |-> "failed to create cache directory: EACCES"]
    ELSE IF io = "exec" THEN [db |-> "open", err |-> "failed to create table: disk I/O error"]
    ELSE [db |-> "open", err |-> ""]

NilEntry == [VideoID |-> "", Language |-> "", Title |-> "", Transcript |-> ""]

\* A variant of getCachedTranscript whose query leaves the language out of
\* its WHERE clause and reads a row of the video in any language.
getCachedTranscript_AnyLanguage(handle, rows, videoID, language, io, qio) ==
    LET init == IF handle = "nil" THEN initCache(io) ELSE [db |-> handle, err |-> ""]
        keys == {k \in DOMAIN rows : k[1] = videoID}
    IN  IF init.err # "" THEN [entry |-> NilEntry, err |-> init.err, db |-> init.db]
        ELSE IF qio # "ok"
            THEN [entry |-> NilEntry, err |-> "failed to query cache: disk I/O error",
                  db |-> init.db]
        ELSE IF keys = {}
            THEN [entry |-> NilEntry, err |-> "not found", db |-> init.db]
        ELSE LET key == CHOOSE k \in keys : \A other \in keys : k[2] = "en" \/ other[2] # "en"
             IN  [entry |-> [VideoID |-> key[1], Language |-> key[2],
                             Title |-> rows[key].title,
                             Transcript |-> rows[key].transcript],
                  err |-> "", db |-> init.db]

\* [entry, err, db]: the returned pair and the handle the call leaves behind.
getCachedTranscript(handle, rows, videoID, language, io, qio) ==
    LET init == IF handle = "nil" THEN initCache(io) ELSE [db |-> handle, err |-> ""]
        key == <<videoID, language>>
    IN  IF init.err # "" THEN [entry |-> NilEntry, err |-> init.err, db |-> init.db]
        ELSE IF qio # "ok"
            THEN [entry |-> NilEntry, err |-> "failed to query cache: disk I/O error",
                  db |-> init.db]
        ELSE IF key \notin DOMAIN rows
            THEN [entry |-> NilEntry, err |-> "not found", db |-> init.db]
        ELSE [entry |-> [VideoID |-> videoID, Language |-> language,
                         Title |-> rows[key].title, Transcript |-> rows[key].transcript],
              err |-> "", db |-> init.db]

\* A variant of InsertOrReplace that keeps the row a key already has
\* (INSERT OR IGNORE).
InsertOrReplace_KeepFirst(rows, key, row) ==
    [k \in DOMAIN rows \cup {key} |-> IF k \in DOMAIN rows THEN rows[k] ELSE row]

\* INSERT OR REPLACE
InsertOrReplace(rows, key, row) ==
    [k \in DOMAIN rows \cup {key} |-> IF k = key THEN row ELSE rows[k]]

\* A variant of cacheTranscript that files every row under the default
\* language.
cacheTranscript_DefaultLanguage(handle, rows, videoID, language, title, transcript, io, qio) ==
    LET init == IF handle = "nil" THEN initCache(io) ELSE [db |-> handle, err |-> ""]
    IN  IF init.err # "" THEN [err |-> init.err, db |-> init.db, rows |-> rows]
        ELSE IF qio # "ok"
            THEN [err |-> "failed to cache transcript: disk I/O error",
                  db |-> init.db, rows |-> rows]
        ELSE [err |-> "", db |-> init.db,
              rows |-> [k \in DOMAIN rows \cup {<<videoID, "en">>} |->
                            IF k = <<videoID, "en">>
                                THEN [title |-> title, transcript |-> transcript]
                                ELSE rows[k]]]

\* [err, db, rows]: the returned error, the handle and the table afterwards.
cacheTranscript(handle, rows, videoID, language, title, transcript, io, qio) ==
    LET init == IF handle = "nil" THEN initCache(io) ELSE [db |-> handle, err |-> ""]
    IN  IF init.err # "" THEN [err |-> init.err, db |-> init.db, rows |-> rows]
        ELSE IF qio # "ok"
            THEN [err |-> "failed to cache transcript: disk I/O error",
                  db |-> init.db, rows |-> rows]
        ELSE [err |-> "", db |-> init.db,
              rows |-> InsertOrReplace(rows, <<videoID, language>>,
                                       [title |-> title, transcript |-> transcript])]

\* A variant of getCacheStats that counts the videos (COUNT(DISTINCT
\* video_id)) instead of the rows.
getCacheStats_DistinctVideos(handle, rows, io, qio) ==
    LET init == IF handle = "nil" THEN initCache(io) ELSE [db |-> handle, err |-> ""]
    IN  IF init.err # "" THEN [count |-> 0, err |-> init.err, db |-> init.db]
        ELSE IF qio # "ok"
            THEN [count |-> 0, err |-> "failed to get cache stats: disk I/O error",
                  db |-> init.db]
        ELSE [count |-> Cardinality({k[1] : k \in DOMAIN rows}), err |-> "",
              db |-> init.db]

\* [count, err, db]
getCacheStats(handle, rows, io, qio) ==
    LET init == IF handle = "nil" THEN initCache(io) ELSE [db |-> handle, err |-> ""]
    IN  IF init.err # "" THEN [count |-> 0, err |-> init.err, db |-> init.db]
        ELSE IF qio # "ok"
            THEN [count |-> 0, err |-> "failed to get cache stats: disk I/O error",
                  db |-> init.db]
        ELSE [count |-> Cardinality(DOMAIN rows), err |-> "", db |-> init.db]

(***************************************************************************)
(* The rate limiter (ratelimit.go): one token bucket per client IP.  Time  *)
(* is counted in token intervals, the time the bucket takes to gain one    *)
(* token; a bucket holds whole tokens.                                     *)
(***************************************************************************)
rateLimitPerMinute == 30

rateLimitBurst == 5

\* In seconds.
rateLimitCleanup == 5 * 60

\* Seconds per token at rate.Limit(rateLimitPerMinute / 60.0).
TokenInterval == 60 \div rateLimitPerMinute

\* rateLimitCleanup in token intervals.
CleanupIntervals == rateLimitCleanup \div TokenInterval

\* var limiter before initRateLimiter has run.
NilLimiter == [nil |-> TRUE, limiters |-> <<>>]

initRateLimiter == [nil |-> FALSE, limiters |-> <<>>]

\* rate.NewLimiter(l.rate, l.burst) with lastSeen = now: a full bucket.
NewLimiter == [tokens |-> rateLimitBurst, age |-> 0]

\* The limiter after getLimiter(ip): the entry exists and was seen now.
getLimiter(l, ip) ==
    [nil |-> l.nil,
     limiters |-> [k \in DOMAIN l.limiters \cup {ip} |->
                      IF k # ip THEN l.limiters[k]
                      ELSE IF ip \in DOMAIN l.limiters
                          THEN [l.limiters[ip] EXCEPT !.age = 0]
                          ELSE NewLimiter]]

\* A variant of allow whose token is taken from every bucket, as if the
\* clients shared one.
allow_SharedBucket(l, ip) ==
    LET seen == getLimiter(l, ip)
    IN  [ok |-> seen.limiters[ip].tokens >= 1,
         limiter |-> IF seen.limiters[ip].tokens >= 1
                         THEN [seen EXCEPT !.limiters =
                                  [k \in DOMAIN @ |->
                                      [@[k] EXCEPT !.tokens = IF @ >= 1 THEN @ - 1 ELSE @]]]
                         ELSE seen]

\* [ok, limiter]: getLimiter(ip).Allow() and the limiter afterwards.
allow(l, ip) ==
    LET seen == getLimiter(l, ip)
    IN  [ok |-> seen.limiters[ip].tokens >= 1,
         limiter |-> IF seen.limiters[ip].tokens >= 1
                         THEN [seen EXCEPT !.limiters[ip].tokens = @ - 1]
                         ELSE seen]

\* One pass of the cleanup loop: entries not seen for longer than
\* rateLimitCleanup are deleted.
cleanup(l) ==
    [nil |-> l.nil,
     limiters |-> [k \in {i \in DOMAIN l.limiters : l.limiters[i].age <= CleanupIntervals} |->
                      l.limiters[k]]]

\* The limiter after n token intervals have passed.
Elapse(l, n) ==
    [nil |-> l.nil,
     limiters |-> [k \in DOMAIN l.limiters |->
        [tokens |-> IF l.limiters[k].tokens + n > rateLimitBurst THEN rateLimitBurst
                    ELSE l.limiters[k].tokens + n,
         age |-> IF l.limiters[k].age + n > CleanupIntervals THEN CleanupIntervals + 1
                 ELSE l.limiters[k].age + n]]]

\* net.SplitHostPort for IPv4 addresses: the host of "host:port", an error
\* without exactly one colon.
SplitHostPort(addr) ==
    IF IndexOf(addr, ":") = 0 THEN [host |-> "", err |-> "missing port in address"]
    ELSE IF IndexOf(SubSeq(addr, IndexOf(addr, ":") + 1, Len(addr)), ":") # 0
        THEN [host |-> "", err |-> "too many colons in address"]
    ELSE [host |-> SubSeq(addr, 1, IndexOf(addr, ":") - 1), err |-> ""]

getClientIP(r) ==
    IF r.xff # "" THEN SplitFirst(r.xff, ",")
    ELSE IF r.xri # "" THEN r.xri
    ELSE IF SplitHostPort(r.remoteAddr).err # "" THEN r.remoteAddr
    ELSE SplitHostPort(r.remoteAddr).host

\* [status, retryAfter, error, next, limiter]: the response, whether the
\* wrapped handler ran (it answers 200) and the limiter afterwards.
rateLimitMiddleware(l, r) ==
    LET l0 == IF l.nil THEN initRateLimiter ELSE l
        got == allow(l0, getClientIP(r))
    IN  IF ~got.ok
            THEN [status |-> 429, retryAfter |-> "60", error |-> "rate_limited",
                  next |-> FALSE, limiter |-> got.limiter]
            ELSE [status |-> 200, retryAfter |-> "", error |-> "",
                  next |-> TRUE, limiter |-> got.limiter]

(***************************************************************************)
(* Summarisation: a black box that answers or fails.                       *)
(***************************************************************************)
summarize(transcript, llm) ==
    IF llm # "ok" THEN [summary |-> "", err |-> "API error (500): upstream"]
    ELSE [summary |-> "Summary of: " \o transcript, err |-> ""]

(***************************************************************************)
(* Inputs of the model                                                     *)
(***************************************************************************)
Procs == {1, 2}

HTTPKinds == {"handleTranscript", "handleSummarize"}
URLs == {"https://youtu.be/dQw4w9WgXcQ?t=42", "not-a-valid-url"}

RequestBodies ==
    {[json |-> FALSE, url |-> "", language |-> ""],
     [json |-> TRUE, url |-> "", language |-> ""]}
    \cup {[json |-> TRUE, url |-> u, language |-> l] : u \in URLs, l \in {"", "es"}}

Track(url, code, kind) == [BaseURL |-> url, LanguageCode |-> code, Kind |-> kind]

PlayerResponse(status, reason, live, tracks) ==
    [videoId |-> "dQw4w9WgXcQ", title |-> "Never Gonna Give You Up",
     status |-> status, reason |-> reason, live |-> live, tracks |-> tracks]

OneTrack == <<Track("/api/timedtext?lang=en", "en", "asr")>>

\* What the metadata POST can answer.
MetaOutcomes ==
    {[net |-> "dial tcp: i/o timeout", status |-> 0, json |-> FALSE, pr |-> NilPlayerResponse],
     [net |-> "", status |-> 429, json |-> FALSE, pr |-> NilPlayerResponse],
     [net |-> "", status |-> 500, json |-> FALSE, pr |-> NilPlayerResponse],
     [net |-> "", status |-> 200, json |-> FALSE, pr |-> NilPlayerResponse]}
    \cup {[net |-> "", status |-> 200, json |-> TRUE, pr |-> pr] : pr \in
           {PlayerResponse("UNPLAYABLE", "This video is private", "", OneTrack),
            PlayerResponse("LOGIN_REQUIRED", "Sign in to confirm your Age", "", OneTrack),
            PlayerResponse("LOGIN_REQUIRED", "Sign in to confirm you're not a bot", "",
                           OneTrack),
            PlayerResponse("ERROR", "Video unavailable", "", OneTrack),
            PlayerResponse("OK", "", "dQw4w9WgXcQ", OneTrack),
            PlayerResponse("OK", "", "", <<>>),
            PlayerResponse("OK", "", "", OneTrack),
            PlayerResponse("OK", "", "",
                           <<Track("/api/timedtext?lang=es", "es", ""),
                             Track("/api/timedtext?lang=en-US", "en-US", "")>>)}}

\* What the caption GET can answer.
CaptionOutcomes ==
    {[net |-> "connection reset by peer", status |-> 0, body |-> <<>>],
     [net |-> "", status |-> 429, body |-> <<>>],
     [net |-> "", status |-> 404, body |-> <<>>],
     [net |-> "", status |-> 200, body |-> <<>>]}
    \cup {[net |-> "", status |-> 200, body |-> b] : b \in
           {<<"<timedtext format=\"3\">", "<body>",
              "<p t=\"0\" d=\"900\">We&#39;re no strangers</p>",
              "<p t=\"900\" d=\"900\">We&#39;re no strangers</p>",
              "<p t=\"1800\" d=\"900\"> to love </p>",
              "</body>", "</timedtext>">>,
            <<"<transcript>", "</transcript>">>,
            <<"WEBVTT", "Kind: captions", "", "1", "00:00:00.000 --> 00:00:02.000",
              "<c>to love</c>">>}}

\* The platform answered the metadata POST with a video in status OK that
\* is not live and lists at least one caption track.
Ready(m) ==
    /\ m.net = "" /\ m.status = 200 /\ m.json
    /\ m.pr.status = "OK" /\ m.pr.live = "" /\ Len(m.pr.tracks) >= 1

\* What a handler's call of fetchTranscript gives, with whether the metadata
\* it was given is that of a video ready for the caption GET.
FetchOutcome(got, ready) ==
    [transcript |-> got.transcript, err |-> got.err, direct |-> got.direct, ready |-> ready]

\* What fetchTranscript(url) can return, over everything the platform can
\* answer.
FetchOutcomes ==
    [u \in URLs |->
        {FetchOutcome(fetchTranscript(u, m, c), Ready(m)) :
            m \in MetaOutcomes, c \in CaptionOutcomes}]

\* extractVideoID of every command-line argument.
ArgOutcomes == [u \in URLs |-> extractVideoID(u)]

\* parseRequest of every request body.
ParseOutcomes == [b \in RequestBodies |-> parseRequest(b)]

DiskOutcomes == {"ok", "mkdir", "exec"}
QueryOutcomes == {"ok", "fail"}
LLMOutcomes == {"ok", "fail"}

(***************************************************************************)
(* State                                                                   *)
(*   cache            the transcripts table (the SQLite file)              *)
(*   db               the server process's cache handle                    *)
(*   clock            the time: the number of requests started so far      *)
(*   lastSuccessTime  0 is the zero time                                   *)
(*   req[p]           the locals of the request p is serving, and what it  *)
(*                    has done so far: calls (outbound HTTP calls), reads  *)
(*                    and writes (cache operations issued), stored (how    *)
(*                    its cache write ended), trackLang (the Language of   *)
(*                    the FetchResult fetchTranscript unwrapped), now (the *)
(*                    value of time.Now() it is about to store), llmErr    *)
(*                    (the error of summarize), ready (the metadata call   *)
(*                    answered with a video in status OK, not live, that   *)
(*                    lists a caption track)                               *)
(*   call             the last call of a function on its own (SpecFn,      *)
(*                    SpecStore, SpecRate)                                 *)
(*   limiter          the rate limiter: whether it is still nil, and the   *)
(*                    token count and the age of each IP's entry           *)
(*   history          what has happened so far, kept for the properties:   *)
(*                    written (the last title and body successfully        *)
(*                    written under each key), seen (requests of each IP   *)
(*                    that reached the rate limiter), elapsed (whether     *)
(*                    time has passed), ticks (token intervals passed one  *)
(*                    by one), opens (calls of sql.Open)                   *)
(***************************************************************************)
IdleReq ==
    [pc |-> "idle", kind |-> "", url |-> "", videoID |-> "", lang |-> "", db |-> "nil",
     err |-> "", entry |-> NilEntry, cached |-> FALSE, transcript |-> "", title |-> "",
     calls |-> <<>>, reads |-> 0, writes |-> 0, stored |-> "", trackLang |-> "",
     now |-> 0, llmErr |-> "", ready |-> FALSE, resp |-> NilResponse]

NoCall == [op |-> "none"]

NoHistory == [written |-> <<>>, seen |-> <<>>, elapsed |-> FALSE, ticks |-> 0, opens |-> 0]

Init ==
    /\ cache = <<>>
    /\ db = "nil"
    /\ clock = 0
    /\ lastSuccessTime = 0
    /\ req = [p \in Procs |-> IdleReq]
    /\ call = NoCall
    /\ limiter = NilLimiter
    /\ history = NoHistory

IsHTTP(p) == req[p].kind \in HTTPKinds

\* The handle a request's cache operations go through: the server's for an
\* HTTP handler, the CLI process's own for a command.
Handle(p) == IF IsHTTP(p) THEN db ELSE req[p].db

\* A finished request is dropped before anything else runs: it shares
\* nothing further with the others.
Running == \A q \in Procs : req[q].pc # "done"

\* Worker p takes a new request.  The workers are interchangeable, so a
\* request goes to the lowest idle one.
CanStart(p) ==
    /\ clock < MaxRequests
    /\ \A q \in Procs : q < p => req[q].pc # "idle"

\* handleTranscript / handleSummarize up to parseRequest.
ParseRequest(p) ==
    /\ Running
    /\ req[p].pc = "idle"
    /\ CanStart(p)
    /\ \E kind \in HTTPKinds, body \in RequestBodies :
        LET parsed == ParseOutcomes[body]
        IN  req' = [req EXCEPT ![p] =
                IF parsed.err # ""
                    THEN [IdleReq EXCEPT !.pc = "done", !.kind = kind, !.url = body.url,
                              !.resp = writeError(400, ErrInvalidRequest, parsed.err)]
                    ELSE [IdleReq EXCEPT !.pc = "lookup", !.kind = kind, !.url = body.url,
                              !.videoID = parsed.videoID, !.lang = parsed.lang]]
    /\ clock' = clock + 1
    /\ UNCHANGED <<limiter, history, cache, db, lastSuccessTime, call>>

\* runTranscript / runSummarize up to extractVideoID.
ParseArgs(p) ==
    /\ Running
    /\ req[p].pc = "idle"
    /\ CanStart(p)
    /\ \E kind \in {"runTranscript", "runSummarize"}, url \in URLs, language \in {defaultLanguage, "es"} :
        LET vid == ArgOutcomes[url]
        IN  req' = [req EXCEPT ![p] =
                IF vid.err # ""
                    THEN [IdleReq EXCEPT !.pc = "done", !.kind = kind, !.url = url,
                              !.resp = [NilResponse EXCEPT !.status = 1,
                                           !.message = "invalid YouTube URL: " \o vid.err]]
                    ELSE [IdleReq EXCEPT !.pc = "lookup", !.kind = kind, !.url = url,
                              !.videoID = vid.id, !.lang = language]]
    /\ clock' = clock + 1
    /\ UNCHANGED <<limiter, history, cache, db, lastSuccessTime, call>>

\* A variant of Lookup that takes only "not found" for a miss and ends the
\* request on any other error.
Lookup_ErrorFailsRequest(p) ==
    /\ Running
    /\ req[p].pc = "lookup"
    /\ \E io \in DiskOutcomes, qio \in QueryOutcomes :
        LET got == getCachedTranscript(Handle(p), cache, req[p].videoID, req[p].lang, io, qio)
        IN  /\ req' = [req EXCEPT ![p] =
                    IF got.err = ""
                        THEN [@ EXCEPT !.pc = "finish", !.entry = got.entry, !.err = got.err,
                                  !.cached = TRUE, !.transcript = got.entry.Transcript,
                                  !.title = got.entry.Title, !.reads = @ + 1,
                                  !.db = IF IsHTTP(p) THEN @ ELSE got.db]
                        ELSE [@ EXCEPT !.pc = IF got.err = "not found" THEN "fetch" ELSE "done",
                                  !.err = got.err, !.reads = @ + 1,
                                  !.db = IF IsHTTP(p) THEN @ ELSE got.db,
                                  !.resp = IF got.err = "not found" THEN @
                                           ELSE [NilResponse EXCEPT !.status = 500,
                                                    !.error = "cache_error",
                                                    !.message = got.err]]]
            /\ db' = IF IsHTTP(p) THEN got.db ELSE db
    /\ UNCHANGED <<limiter, history, cache, clock, lastSuccessTime, call>>

\* entry, err := getCachedTranscript(videoID, lang) and the branch on err.
Lookup(p) ==
    /\ Running
    /\ req[p].pc = "lookup"
    /\ \E io \in DiskOutcomes, qio \in QueryOutcomes :
        LET got == getCachedTranscript(Handle(p), cache, req[p].videoID, req[p].lang, io, qio)
        IN  /\ req' = [req EXCEPT ![p] =
                    IF got.err = ""
                        THEN [@ EXCEPT !.pc = "finish", !.entry = got.entry, !.err = got.err,
                                  !.cached = TRUE, !.transcript = got.entry.Transcript,
                                  !.title = got.entry.Title, !.reads = @ + 1,
                                  !.db = IF IsHTTP(p) THEN @ ELSE got.db]
                        ELSE [@ EXCEPT !.pc = "fetch", !.err = got.err, !.reads = @ + 1,
                                  !.db = IF IsHTTP(p) THEN @ ELSE got.db]]
            /\ db' = IF IsHTTP(p) THEN got.db ELSE db
    /\ UNCHANGED <<limiter, history, cache, clock, lastSuccessTime, call>>

\* A variant of Fetch that caches what fetchTranscript returned before it
\* looks at the error.
Fetch_CacheBeforeErrorCheck(p) ==
    /\ Running
    /\ req[p].pc = "fetch"
    /\ \E got \in FetchOutcomes[req[p].url] :
        /\ req' = [req EXCEPT ![p] =
                IF got.err # ""
                    THEN [@ EXCEPT !.pc = "done", !.err = got.err, !.calls = got.direct.calls,
                              !.ready = got.ready,
                              !.writes = @ + 1,
                              !.resp = IF IsHTTP(p)
                                         THEN handleFetchError(got.err, req[p].videoID)
                                         ELSE [NilResponse EXCEPT !.status = 1,
                                                  !.message = "failed to fetch transcript: "
                                                                 \o got.err]]
                    ELSE [@ EXCEPT !.pc = "store", !.err = "", !.transcript = got.transcript,
                              !.calls = got.direct.calls, !.ready = got.ready,
                              !.trackLang = got.direct.result.Language]]
        /\ cache' = IF got.err # "" /\ Handle(p) = "open"
                        THEN [k \in DOMAIN cache \cup {<<req[p].videoID, req[p].lang>>} |->
                                IF k = <<req[p].videoID, req[p].lang>>
                                    THEN [title |-> "", transcript |-> got.transcript]
                                    ELSE cache[k]]
                        ELSE cache
    /\ UNCHANGED <<limiter, history, db, clock, lastSuccessTime, call>>

\* transcript, err = fetchTranscript(url) and the branch on err.
Fetch(p) ==
    /\ Running
    /\ req[p].pc = "fetch"
    /\ \E got \in FetchOutcomes[req[p].url] :
            req' = [req EXCEPT ![p] =
                IF got.err # ""
                    THEN [@ EXCEPT !.pc = "done", !.err = got.err, !.calls = got.direct.calls,
                              !.ready = got.ready,
                              !.resp = IF IsHTTP(p)
                                         THEN handleFetchError(got.err, req[p].videoID)
                                         ELSE [NilResponse EXCEPT !.status = 1,
                                                  !.message = "failed to fetch transcript: "
                                                                 \o got.err]]
                    ELSE [@ EXCEPT !.pc = "store", !.err = "", !.transcript = got.transcript,
                              !.calls = got.direct.calls, !.ready = got.ready,
                              !.trackLang = got.direct.result.Language]]
    /\ UNCHANGED <<limiter, history, cache, db, clock, lastSuccessTime, call>>

\* A variant of Store that ends the request with an error when the cache
\* write fails.
Store_FailedWriteFailsRequest(p) ==
    /\ Running
    /\ req[p].pc = "store"
    /\ \E io \in DiskOutcomes, qio \in QueryOutcomes :
        LET put == cacheTranscript(Handle(p), cache, req[p].videoID, req[p].lang, "",
                                   req[p].transcript, io, qio)
        IN  /\ cache' = put.rows
            /\ db' = IF IsHTTP(p) THEN put.db ELSE db
            /\ req' = [req EXCEPT ![p] =
                    [@ EXCEPT !.pc = IF put.err = "" THEN "finish" ELSE "done",
                              !.writes = @ + 1,
                              !.stored = IF put.err = "" THEN "ok" ELSE "failed",
                              !.db = IF IsHTTP(p) THEN @ ELSE put.db,
                              !.resp = IF put.err = "" THEN @
                                       ELSE IF IsHTTP(p)
                                           THEN writeErrorWithVideo(500, "cache_error", put.err,
                                                                    req[p].videoID)
                                       ELSE [NilResponse EXCEPT !.status = 1,
                                                                !.message = put.err]]]
    /\ UNCHANGED <<limiter, history, clock, lastSuccessTime, call>>

\* cacheTranscript(videoID, lang, "", transcript); its error is dropped (HTTP)
\* or printed as a warning (CLI).
Store(p) ==
    /\ Running
    /\ req[p].pc = "store"
    /\ \E io \in DiskOutcomes, qio \in QueryOutcomes :
        LET put == cacheTranscript(Handle(p), cache, req[p].videoID, req[p].lang, "",
                                   req[p].transcript, io, qio)
        IN  /\ cache' = put.rows
            /\ db' = IF IsHTTP(p) THEN put.db ELSE db
            /\ req' = [req EXCEPT ![p] =
                    [@ EXCEPT !.pc = "finish", !.writes = @ + 1,
                              !.stored = IF put.err = "" THEN "ok" ELSE "failed",
                              !.db = IF IsHTTP(p) THEN @ ELSE put.db]]
    /\ UNCHANGED <<limiter, history, clock, lastSuccessTime, call>>

\* A variant of OKResponse that leaves the cached flag unset.
OKResponse_FlagUnset(r) ==
    [NilResponse EXCEPT !.status = 200, !.video_id = r.videoID, !.title = r.title,
                        !.language = r.lang]

OKResponse(r) ==
    [NilResponse EXCEPT !.status = 200, !.video_id = r.videoID, !.title = r.title,
                        !.language = r.lang, !.cached = r.cached]

\* A variant of Finish whose /summarize handler answers a failed
\* summarisation with an error instead of the transcript.
Finish_SummarizeFailureIsError(p) ==
    /\ Running
    /\ req[p].pc = "finish"
    /\ \E llm \in LLMOutcomes :
        LET r == req[p]
            sum == summarize(r.transcript, llm)
        IN  \/ /\ r.kind = "handleTranscript"
               /\ lastSuccessTime' = clock
               /\ req' = [req EXCEPT ![p] =
                       [@ EXCEPT !.pc = "done",
                                 !.resp = [OKResponse(r) EXCEPT !.transcript = r.transcript]]]
            \/ /\ r.kind = "handleSummarize"
               /\ lastSuccessTime' = IF sum.err # "" THEN lastSuccessTime ELSE clock
               /\ req' = [req EXCEPT ![p] =
                       [@ EXCEPT !.pc = "done", !.llmErr = sum.err,
                                 !.resp = IF sum.err # ""
                                     THEN writeErrorWithVideo(500, "llm_error", sum.err,
                                                              r.videoID)
                                     ELSE [OKResponse(r) EXCEPT !.summary = sum.summary]]]
            \/ /\ r.kind = "runTranscript"
               /\ lastSuccessTime' = lastSuccessTime
               /\ req' = [req EXCEPT ![p] =
                       [@ EXCEPT !.pc = "done",
                                 !.resp = [NilResponse EXCEPT !.transcript = r.transcript]]]
            \/ /\ r.kind = "runSummarize"
               /\ lastSuccessTime' = lastSuccessTime
               /\ req' = [req EXCEPT ![p] =
                       [@ EXCEPT !.pc = "done", !.llmErr = sum.err,
                                 !.resp = IF sum.err # ""
                                     THEN [NilResponse EXCEPT !.status = 1,
                                              !.message = "failed to summarize: " \o sum.err]
                                     ELSE [NilResponse EXCEPT !.summary = sum.summary]]]
    /\ UNCHANGED <<limiter, history, cache, db, clock, call>>

\* The rest of the handler once it holds the transcript.
Finish(p) ==
    /\ Running
    /\ req[p].pc = "finish"
    /\ \E llm \in LLMOutcomes :
        LET r == req[p]
            sum == summarize(r.transcript, llm)
        IN  \/ /\ r.kind = "handleTranscript"
               /\ lastSuccessTime' = clock
               /\ req' = [req EXCEPT ![p] =
                       [@ EXCEPT !.pc = "done",
                                 !.resp = [OKResponse(r) EXCEPT !.transcript = r.transcript]]]
            \/ /\ r.kind = "handleSummarize"
               /\ lastSuccessTime' = IF sum.err # "" THEN lastSuccessTime ELSE clock
               /\ req' = [req EXCEPT ![p] =
                       [@ EXCEPT !.pc = "done", !.llmErr = sum.err,
                                 !.resp = IF sum.err # ""
                                     THEN [OKResponse(r) EXCEPT !.transcript = r.transcript]
                                     ELSE [OKResponse(r) EXCEPT !.summary = sum.summary]]]
            \/ /\ r.kind = "runTranscript"
               /\ lastSuccessTime' = lastSuccessTime
               /\ req' = [req EXCEPT ![p] =
                       [@ EXCEPT !.pc = "done",
                                 !.resp = [NilResponse EXCEPT !.transcript = r.transcript]]]
            \/ /\ r.kind = "runSummarize"
               /\ lastSuccessTime' = lastSuccessTime
               /\ req' = [req EXCEPT ![p] =
                       [@ EXCEPT !.pc = "done", !.llmErr = sum.err,
                                 !.resp = IF sum.err # ""
                                     THEN [NilResponse EXCEPT !.status = 1,
                                              !.message = "failed to summarize: " \o sum.err]
                                     ELSE [NilResponse EXCEPT !.summary = sum.summary]]]
    /\ UNCHANGED <<limiter, history, cache, db, clock, call>>

\* The handler has returned; its locals are gone.
Reset(p) ==
    /\ req[p].pc = "done"
    /\ req' = [req EXCEPT ![p] = IdleReq]
    /\ UNCHANGED <<limiter, history, cache, db, clock, lastSuccessTime, call>>

Next ==
    \E p \in Procs :
        \/ ParseRequest(p)
        \/ ParseArgs(p)
        \/ Lookup(p)
        \/ Fetch(p)
        \/ Store(p)
        \/ Finish(p)
        \/ Reset(p)

Spec == Init /\ [][Next]_vars

(***************************************************************************)
(* The pipeline's functions called on their own, over wider inputs than    *)
(* the handlers feed them.  `call` holds the last call: its arguments and  *)
(* what it returned.                                                       *)
(***************************************************************************)
Statuses == {"OK", "UNPLAYABLE", "LOGIN_REQUIRED", "ERROR", "LIVE_STREAM_OFFLINE", ""}

Reasons ==
    {"", "Sign in to confirm your age", "AGE-restricted", "See the help pAge",
     "Sign in to confirm you're not a bot", "Video unavailable"}

LiveMarkers == {"", "dQw4w9WgXcQ"}

LanguageCodes == {"e", "en", "en-US", "en-US-x", "es"}

PreferredLanguages == {"", "e", "en", "en-US", "es-MX", "fr"}

RECURSIVE CodeLists(_)
CodeLists(n) ==
    IF n = 0 THEN {<<>>}
    ELSE CodeLists(n - 1)
           \cup {Append(l, code) : l \in {x \in CodeLists(n - 1) : Len(x) = n - 1},
                                   code \in LanguageCodes}

\* The track list with these language codes; each track has its own URL.
TracksOf(codes) ==
    [i \in 1..Len(codes) |->
        Track("/api/timedtext?n=" \o ToString(i), codes[i], IF i = 1 THEN "asr" ELSE "")]

TrackLists == {TracksOf(codes) : codes \in CodeLists(MaxTracks)}

\* Player responses for the pipeline called on its own.
PipelineResponses ==
    {PlayerResponse(st, rs, lv, tr) :
        st \in Statuses, rs \in {"", "Sign in to confirm your age"}, lv \in LiveMarkers,
        tr \in {<<>>, TracksOf(<<"es", "en-US">>), TracksOf(<<"es", "en">>)}}

PipelineMetaOutcomes ==
    {m \in MetaOutcomes : ~m.json}
    \cup {[net |-> "", status |-> 200, json |-> TRUE, pr |-> pr] : pr \in PipelineResponses}

\* fetchTranscriptDirect of every input of the pipeline called on its own.
DirectOutcomes ==
    [url \in URLs, language \in {"en", "es"}, m \in PipelineMetaOutcomes,
     c \in CaptionOutcomes |-> fetchTranscriptDirect(url, language, m, c)]

\* Reason texts the platform sends with a status; the text is free.
ReportReasons ==
    {"", "Video unavailable", "Private video", "This video is age-restricted",
     "Sign in to confirm your age", "Playback rate exceeded (429)"}

\* Answers of the metadata POST that carry a reason text: transport and
\* HTTP failures, and every status with every reason text, with and without
\* a caption track.
ReportMetaOutcomes ==
    {m \in MetaOutcomes : ~m.json}
    \cup {[net |-> "", status |-> 200, json |-> TRUE, pr |-> PlayerResponse(st, rs, "", tr)] :
            st \in {"OK", "UNPLAYABLE", "LOGIN_REQUIRED", "ERROR"}, rs \in ReportReasons,
            tr \in {<<>>, OneTrack}}

\* Answers of the metadata POST a handler's miss branch is run on.
MissMetaOutcomes == PipelineMetaOutcomes \cup ReportMetaOutcomes

\* fetchTranscript of every input of a handler's miss branch.
MissOutcomes ==
    [url \in URLs, m \in MissMetaOutcomes, c \in CaptionOutcomes |->
        fetchTranscript(url, m, c)]

InitFn == Init

CallCheckPlayability ==
    /\ call = NoCall
    /\ \E st \in Statuses, rs \in Reasons, lv \in LiveMarkers :
        LET pr == PlayerResponse(st, rs, lv, OneTrack)
        IN  call' = [op |-> "checkPlayability", pr |-> pr, err |-> checkPlayability(pr)]
    /\ UNCHANGED <<limiter, history, cache, db, clock, lastSuccessTime, req>>

CallSelectCaptionTrack ==
    /\ call = NoCall
    /\ \E tracks \in TrackLists, lang \in PreferredLanguages :
        \E sel \in {selectCaptionTrack(tracks, lang)} :
            call' = [op |-> "selectCaptionTrack", tracks |-> tracks, lang |-> lang,
                     track |-> sel.track, err |-> sel.err]
    /\ UNCHANGED <<limiter, history, cache, db, clock, lastSuccessTime, req>>

CallFetchTranscriptDirect ==
    /\ call = NoCall
    /\ \E url \in URLs, language \in {"en", "es"}, m \in PipelineMetaOutcomes,
          c \in CaptionOutcomes :
        \E got \in {DirectOutcomes[url, language, m, c]} :
            call' = [op |-> "fetchTranscriptDirect", url |-> url, language |-> language,
                     m |-> m, c |-> c, result |-> got.result, err |-> got.err,
                     calls |-> got.calls]
    /\ UNCHANGED <<limiter, history, cache, db, clock, lastSuccessTime, req>>

\* The miss branch of a handler on its own: the request is parsed, the
\* transcript fetched and a failure answered by handleFetchError (server.go,
\* handleTranscript and handleSummarize).
CallMissBranch ==
    /\ call = NoCall
    /\ \E body \in RequestBodies, m \in MissMetaOutcomes, c \in CaptionOutcomes :
        \E parsed \in {ParseOutcomes[body]} :
            /\ parsed.err = ""
            /\ \E got \in {MissOutcomes[body.url, m, c]} :
                call' = [op |-> "missBranch", videoID |-> parsed.videoID,
                         lang |-> parsed.lang, m |-> m, c |-> c,
                         transcript |-> got.transcript, err |-> got.err,
                         calls |-> got.direct.calls, result |-> got.direct.result,
                         resp |-> IF got.err = "" THEN NilResponse
                                  ELSE handleFetchError(got.err, parsed.videoID)]
    /\ UNCHANGED <<limiter, history, cache, db, clock, lastSuccessTime, req>>

\* Inputs of extractVideoID.  A URL is built from parts, each a pattern's
\* literal text, the identifier that follows it and what follows that; a
\* bare input has no part.
URLLiterals ==
    {"youtube.com/watch?v=", "youtu.be/", "youtube.com/embed/", "youtube.com/v/",
     "youtube.com/shorts/", "youtube.com/live/"}

URLIdentifiers == {"dQw4w9WgXcQ", "a_-4w9WgXc0", "dQw4w9WgXcQextra", "abc123", "dQw4w9WgXc!"}

URLPart(literal, id, suffix) == [literal |-> literal, id |-> id, suffix |-> suffix]

PartText(part) == part.literal \o part.id \o part.suffix

ExtractInputs ==
    {[url |-> u, parts |-> <<>>] :
        u \in URLIdentifiers \cup {"", "https://example.com/video", "dQw4w9WgXcQ\n"}}
    \cup {[url |-> h \o PartText(URLPart(l, id, sf)), parts |-> <<URLPart(l, id, sf)>>] :
            h \in {"", "https://www.", "https://m."}, l \in URLLiterals, id \in URLIdentifiers, sf \in {"", "?t=30", "&list=PLrAXtmErZgOeiKm"}}
    \cup {[url |-> "https://" \o PartText(URLPart(l1, "dQw4w9WgXcQ", "?next="))
                              \o PartText(URLPart(l2, "a_-4w9WgXc0", "")),
           parts |-> <<URLPart(l1, "dQw4w9WgXcQ", "?next="), URLPart(l2, "a_-4w9WgXc0", "")>>] :
            l1 \in URLLiterals, l2 \in URLLiterals}

\* extractVideoID of every input.
ExtractOutcomes == [in \in ExtractInputs |-> extractVideoID(in.url)]

CallExtractVideoID ==
    /\ call = NoCall
    /\ \E in \in ExtractInputs :
        \E got \in {ExtractOutcomes[in]} :
            call' = [op |-> "extractVideoID", url |-> in.url, parts |-> in.parts,
                     id |-> got.id, err |-> got.err]
    /\ UNCHANGED <<limiter, history, cache, db, clock, lastSuccessTime, req>>

\* Inputs of the normalisers.  A caption line is written here with the text
\* it stands for: raw is what the document holds, text what it decodes to
\* ("" for a line that carries no caption text).
XMLCaptionLines ==
    {[raw |-> "a", text |-> "a"], [raw |-> " a ", text |-> "a"],
     [raw |-> "b &amp; c", text |-> "b & c"], [raw |-> " ", text |-> ""]}

SRTCaptionLines ==
    {[raw |-> "a", text |-> "a"], [raw |-> "<c>a</c> ", text |-> "a"],
     [raw |-> "b & c", text |-> "b & c"], [raw |-> "00:00:01.000 --> 00:00:02.000", text |-> ""],
     [raw |-> "12", text |-> ""]}

CaptionDocuments(lines) == UNION {[1..k -> lines] : k \in 0..MaxLines}

\* The timedtext document with these caption lines, in <p> or <text> form.
TimedTextOf(doc, tag) ==
    <<"<timedtext format=\"3\">", "<body>">>
    \o [i \in 1..Len(doc) |->
           "<" \o tag \o " t=\"" \o ToString(i) \o "\">" \o doc[i].raw \o "</" \o tag \o ">"]
    \o <<"</body>", "</timedtext>">>

\* The WebVTT document with these caption lines.
WebVTTOf(doc) == <<"WEBVTT", "Kind: captions", "">> \o [i \in 1..Len(doc) |-> doc[i].raw]

CallParseTimedText ==
    /\ call = NoCall
    /\ \E doc \in CaptionDocuments(XMLCaptionLines), tag \in {"p", "text"} :
        \E kept \in {parseTimedTextLines(TimedTextOf(doc, tag))} :
            call' = [op |-> "parseTimedText", doc |-> doc, lines |-> kept,
                     out |-> Join(kept, " ")]
    /\ UNCHANGED <<limiter, history, cache, db, clock, lastSuccessTime, req>>

CallCleanSRT ==
    /\ call = NoCall
    /\ \E doc \in CaptionDocuments(SRTCaptionLines) :
        \E kept \in {cleanSRTLines(WebVTTOf(doc))} :
            call' = [op |-> "cleanSRT", doc |-> doc, lines |-> kept, out |-> Join(kept, " ")]
    /\ UNCHANGED <<limiter, history, cache, db, clock, lastSuccessTime, req>>

\* The line-oriented document with these caption lines: WebVTT with its
\* banner, or SubRip, which has none.
LineOrientedOf(doc, banner) ==
    (IF banner THEN <<"WEBVTT", "Kind: captions", "">> ELSE <<>>)
    \o [i \in 1..Len(doc) |-> doc[i].raw]

\* Caption content the platform can serve: both XML dialects and both
\* line-oriented formats, of up to two caption lines.
NormalizeInputs ==
    {TimedTextOf(doc, tag) :
        doc \in {d \in CaptionDocuments(XMLCaptionLines) : Len(d) <= 2}, tag \in {"p", "text"}}
    \cup {<<"<transcript>", "<text start=\"0\" dur=\"1\">a</text>", "</transcript>">>}
    \cup {LineOrientedOf(doc, banner) :
        doc \in {d \in CaptionDocuments(SRTCaptionLines) : Len(d) <= 2},
        banner \in BOOLEAN}

NormalizeOutcomes ==
    [content \in NormalizeInputs |->
        [out |-> normalize(content), xml |-> parseTimedText(content),
         lineOriented |-> cleanSRT(content)]]

\* The dispatch of fetchTranscriptDirect on its own, with what each of the
\* two normalisers makes of the same content.
CallNormalize ==
    /\ call = NoCall
    /\ \E content \in NormalizeInputs :
        \E got \in {NormalizeOutcomes[content]} :
            call' = [op |-> "normalize", content |-> content, out |-> got.out,
                     xml |-> got.xml, lineOriented |-> got.lineOriented]
    /\ UNCHANGED <<limiter, history, cache, db, clock, lastSuccessTime, req>>

\* The errors fetchTranscriptDirect returns over the inputs of the model.
PipelineErrors ==
    {DirectOutcomes[url, language, m, c].err :
        url \in URLs, language \in {"en", "es"}, m \in PipelineMetaOutcomes,
        c \in CaptionOutcomes} \ {""}

CallHandleFetchError ==
    /\ call = NoCall
    /\ \E e \in PipelineErrors :
        call' = [op |-> "handleFetchError", err |-> e,
                 resp |-> handleFetchError(e, "dQw4w9WgXcQ")]
    /\ UNCHANGED <<limiter, history, cache, db, clock, lastSuccessTime, req>>

\* Keys the server is started with ("" is no key) and the two headers of a
\* request.
ServerAPIKeys == {"", "test-secret-key"}

XAPIKeyHeaders == {"", "wrong-key", "test-secret-key"}

AuthorizationHeaders ==
    {"", "Bearer test-secret-key", "Bearer wrong-key", "test-secret-key",
     "bearer test-secret-key", "Bearer "}

AuthOutcomes ==
    [apiKey \in ServerAPIKeys, x \in XAPIKeyHeaders, auth \in AuthorizationHeaders |->
        authMiddleware(apiKey, [xAPIKey |-> x, authorization |-> auth])]

CallAuthMiddleware ==
    /\ call = NoCall
    /\ \E apiKey \in ServerAPIKeys, x \in XAPIKeyHeaders, auth \in AuthorizationHeaders :
        \E got \in {AuthOutcomes[apiKey, x, auth]} :
            call' = [op |-> "authMiddleware", apiKey |-> apiKey, xAPIKey |-> x,
                     authorization |-> auth, status |-> got.status, next |-> got.next]
    /\ UNCHANGED <<limiter, history, cache, db, clock, lastSuccessTime, req>>

\* The caller takes the result; the next call can be made.
Return ==
    /\ call # NoCall
    /\ call' = NoCall
    /\ UNCHANGED <<limiter, history, cache, db, clock, lastSuccessTime, req>>

NextFn ==
    \/ CallCheckPlayability
    \/ CallSelectCaptionTrack
    \/ CallFetchTranscriptDirect
    \/ CallMissBranch
    \/ CallExtractVideoID
    \/ CallParseTimedText
    \/ CallCleanSRT
    \/ CallHandleFetchError
    \/ CallAuthMiddleware
    \/ CallNormalize
    \/ Return

SpecFn == InitFn /\ [][NextFn]_vars

(***************************************************************************)
(* The cache store on its own: the three operations of cache.go applied in *)
(* any order to one database, as the tests of cache_test.go do.  Every     *)
(* call may meet a failing disk.  history.written keeps, for every key,    *)
(* the title and body of the last write that returned no error.            *)
(***************************************************************************)
StoreVideos == {"dQw4w9WgXcQ", "abc123xyz99"}

StoreLanguages == {"en", "es"}

\* Whether the disk fails a call that starts with this handle.
StoreFault(handle, io, qio) == (handle = "nil" /\ io # "ok") \/ qio # "ok"

CallCacheTranscript ==
    \E videoID \in StoreVideos, language \in StoreLanguages,
       title \in {"Title v1", "Title v2"}, transcript \in {"Transcript v1", "Transcript v2"},
       io \in DiskOutcomes, qio \in QueryOutcomes :
        \E got \in {cacheTranscript(db, cache, videoID, language, title, transcript,
                                     io, qio)} :
            /\ cache' = got.rows
            /\ db' = got.db
            /\ call' = [op |-> "cacheTranscript", videoID |-> videoID,
                        language |-> language, title |-> title,
                        transcript |-> transcript, err |-> got.err,
                        fault |-> StoreFault(db, io, qio)]
            /\ history' = IF got.err # "" THEN history
                          ELSE [history EXCEPT !.written =
                                   [k \in DOMAIN @ \cup {<<videoID, language>>} |->
                                       IF k = <<videoID, language>>
                                           THEN [title |-> title, transcript |-> transcript]
                                           ELSE @[k]]]
            /\ UNCHANGED <<clock, lastSuccessTime, req, limiter>>

CallGetCachedTranscript ==
    \E videoID \in StoreVideos, language \in StoreLanguages,
       io \in DiskOutcomes, qio \in QueryOutcomes :
        \E got \in {getCachedTranscript(db, cache, videoID, language, io, qio)} :
            /\ db' = got.db
            /\ call' = [op |-> "getCachedTranscript", videoID |-> videoID,
                        language |-> language, entry |-> got.entry, err |-> got.err,
                        fault |-> StoreFault(db, io, qio)]
            /\ UNCHANGED <<cache, clock, lastSuccessTime, req, limiter, history>>

CallGetCacheStats ==
    \E io \in DiskOutcomes, qio \in QueryOutcomes :
        \E got \in {getCacheStats(db, cache, io, qio)} :
            /\ db' = got.db
            /\ call' = [op |-> "getCacheStats", count |-> got.count, err |-> got.err,
                        fault |-> StoreFault(db, io, qio)]
            /\ UNCHANGED <<cache, clock, lastSuccessTime, req, limiter, history>>

NextStore ==
    \/ CallCacheTranscript
    \/ CallGetCachedTranscript
    \/ CallGetCacheStats

SpecStore == Init /\ [][NextStore]_vars

(***************************************************************************)
(* The rate limiter on its own: requests of two client IPs reach           *)
(* rateLimitMiddleware in any order while time passes and the cleanup loop *)
(* runs.  history.seen counts the requests of each IP, history.elapsed     *)
(* tells whether any time has passed since the start.                      *)
(***************************************************************************)
RateRequests ==
    {[xff |-> "", xri |-> "", remoteAddr |-> "192.168.1.1:12345"],
     [xff |-> "", xri |-> "", remoteAddr |-> "192.168.1.1"],
     [xff |-> "192.168.1.2, 10.0.0.1", xri |-> "", remoteAddr |-> "10.0.0.1:443"],
     [xff |-> "", xri |-> "192.168.1.2", remoteAddr |-> "10.0.0.1:443"]}

ClientIPs == [r \in RateRequests |-> getClientIP(r)]

Seen(ip) == IF ip \in DOMAIN history.seen THEN history.seen[ip] ELSE 0

CallRateLimitMiddleware ==
    \E r \in RateRequests :
        \E ip \in {ClientIPs[r]} :
            \E got \in {rateLimitMiddleware(limiter, r)} :
                /\ Seen(ip) < MaxArrivals
                /\ limiter' = got.limiter
                /\ call' = [op |-> "rateLimitMiddleware", ip |-> ip, status |-> got.status,
                            retryAfter |-> got.retryAfter, error |-> got.error,
                            next |-> got.next]
                /\ history' = [history EXCEPT !.seen =
                                  [k \in DOMAIN @ \cup {ip} |->
                                      IF k = ip THEN Seen(ip) + 1 ELSE @[k]]]
                /\ UNCHANGED <<cache, db, clock, lastSuccessTime, req>>

\* One token interval passes.
Tick ==
    /\ ~limiter.nil
    /\ history.ticks < MaxTicks
    /\ limiter' = Elapse(limiter, 1)
    /\ history' = [history EXCEPT !.elapsed = TRUE, !.ticks = @ + 1]
    /\ UNCHANGED <<cache, db, clock, lastSuccessTime, req, call>>

\* The server stays idle for longer than rateLimitCleanup.
Idle ==
    /\ ~limiter.nil
    /\ limiter' = Elapse(limiter, CleanupIntervals + 1)
    /\ history' = [history EXCEPT !.elapsed = TRUE]
    /\ UNCHANGED <<cache, db, clock, lastSuccessTime, req, call>>

\* The cleanup loop's ticker fires.
Cleanup ==
    /\ ~limiter.nil
    /\ history.elapsed
    /\ limiter' = cleanup(limiter)
    /\ UNCHANGED <<cache, db, clock, lastSuccessTime, req, call, history>>

NextRate ==
    \/ CallRateLimitMiddleware
    \/ Tick
    \/ Idle
    \/ Cleanup

SpecRate == Init /\ [][NextRate]_vars

(***************************************************************************)
(* The health endpoint and the last-success timestamp.  GET /health is     *)
(* not behind any middleware and runs at any time.  The handlers end a     *)
(* successful request with lastSuccessTime = time.Now(), a read of the     *)
(* clock followed by a store to the package variable that no lock guards:  *)
(* the two are steps of their own, and other handlers run between them.    *)
(* history.ticks counts the advances of the clock.                         *)
(***************************************************************************)
\* startServer: serverStartTime = time.Now(), later than the zero time.
serverStartTime == 1

\* How far the clock advances in one step: one unit, an hour, an hour and
\* one unit.
Durations ==
    {1, DegradedAfterSeconds * UnitsPerSecond, DegradedAfterSeconds * UnitsPerSecond + 1}

InitHealth ==
    /\ cache = <<>>
    /\ db = "nil"
    /\ clock = serverStartTime
    /\ lastSuccessTime = 0
    /\ req = [p \in Procs |-> IdleReq]
    /\ call = NoCall
    /\ limiter = NilLimiter
    /\ history = NoHistory

\* A handler that has succeeded evaluates time.Now().
ReadTimeNow(p) ==
    /\ req[p].pc = "idle"
    /\ \E kind \in HTTPKinds :
        req' = [req EXCEPT ![p] = [IdleReq EXCEPT !.pc = "stamp", !.kind = kind,
                                                  !.now = clock]]
    /\ UNCHANGED <<cache, db, clock, lastSuccessTime, call, limiter, history>>

\* It stores the value in lastSuccessTime and answers.
SetLastSuccessTime(p) ==
    /\ req[p].pc = "stamp"
    /\ lastSuccessTime' = req[p].now
    /\ req' = [req EXCEPT ![p] = IdleReq]
    /\ UNCHANGED <<cache, db, clock, call, limiter, history>>

Advance ==
    /\ history.ticks < MaxAdvances
    /\ \E d \in Durations : clock' = clock + d
    /\ history' = [history EXCEPT !.ticks = @ + 1]
    /\ UNCHANGED <<cache, db, lastSuccessTime, req, call, limiter>>

CallHandleHealth ==
    \E io \in DiskOutcomes, qio \in QueryOutcomes :
        \E stats \in {getCacheStats(db, cache, io, qio)} :
            \E resp \in {handleHealth(stats, lastSuccessTime, serverStartTime, clock)} :
                /\ db' = stats.db
                /\ call' = [op |-> "handleHealth", fault |-> StoreFault(db, io, qio),
                            last |-> lastSuccessTime, now |-> clock, resp |-> resp]
                /\ UNCHANGED <<cache, clock, lastSuccessTime, req, limiter, history>>

NextHealth ==
    \/ \E p \in Procs : ReadTimeNow(p) \/ SetLastSuccessTime(p)
    \/ Advance
    \/ CallHandleHealth

SpecHealth == InitHealth /\ [][NextHealth]_vars

(***************************************************************************)
(* The cache handle.  Every operation of cache.go begins with              *)
(*     if db == nil { if err := initCache(); err != nil { return err } }   *)
(* and no lock guards db: the test, the call of initCache and the query    *)
(* are steps of their own, and the handlers of concurrent requests         *)
(* interleave between them.  A handle is named after the call of sql.Open  *)
(* that made it ("db1", "db2", ...); req[p].db is the handle p's query     *)
(* went through; history.opens counts the calls of sql.Open.               *)
(***************************************************************************)
\* A handler calls a cache operation.
BeginCacheOp(p) ==
    /\ req[p].pc = "idle"
    /\ CanStart(p)
    /\ \E op \in {"getCachedTranscript", "cacheTranscript", "getCacheStats"} :
        req' = [req EXCEPT ![p] = [IdleReq EXCEPT !.pc = "check", !.kind = op,
                                                  !.videoID = "dQw4w9WgXcQ", !.lang = "en"]]
    /\ clock' = clock + 1
    /\ UNCHANGED <<cache, db, lastSuccessTime, call, limiter, history>>

\* if db == nil
TestHandle(p) ==
    /\ req[p].pc = "check"
    /\ req' = [req EXCEPT ![p].pc = IF db = "nil" THEN "init" ELSE "query"]
    /\ UNCHANGED <<cache, db, clock, lastSuccessTime, call, limiter, history>>

\* initCache(): MkdirAll, db, err = sql.Open(...), CREATE TABLE.
OpenHandle(p) ==
    /\ req[p].pc = "init"
    /\ \E io \in DiskOutcomes :
        \E init \in {initCache(io)} :
            /\ db' = IF init.db = "nil" THEN db ELSE "db" \o ToString(history.opens + 1)
            /\ history' = IF init.db = "nil" THEN history
                          ELSE [history EXCEPT !.opens = @ + 1]
            /\ req' = [req EXCEPT ![p] =
                    IF init.err # "" THEN [@ EXCEPT !.pc = "done", !.err = init.err]
                    ELSE [@ EXCEPT !.pc = "query"]]
    /\ UNCHANGED <<cache, clock, lastSuccessTime, call, limiter>>

\* The statement on db: QueryRow or Exec through the handle db holds now.
QueryHandle(p) ==
    /\ req[p].pc = "query"
    /\ \E qio \in QueryOutcomes :
        LET r == req[p]
        IN  \/ /\ r.kind = "getCachedTranscript"
               /\ \E got \in {getCachedTranscript(db, cache, r.videoID, r.lang, "ok", qio)} :
                    req' = [req EXCEPT ![p] = [@ EXCEPT !.pc = "done", !.db = db,
                                                       !.err = got.err, !.entry = got.entry,
                                                       !.reads = 1]]
               /\ cache' = cache
            \/ /\ r.kind = "cacheTranscript"
               /\ \E put \in {cacheTranscript(db, cache, r.videoID, r.lang, "",
                                               "We're no strangers to love", "ok", qio)} :
                    /\ req' = [req EXCEPT ![p] = [@ EXCEPT !.pc = "done", !.db = db,
                                                          !.err = put.err, !.writes = 1]]
                    /\ cache' = put.rows
            \/ /\ r.kind = "getCacheStats"
               /\ \E got \in {getCacheStats(db, cache, "ok", qio)} :
                    req' = [req EXCEPT ![p] = [@ EXCEPT !.pc = "done", !.db = db,
                                                       !.err = got.err, !.reads = 1]]
               /\ cache' = cache
    /\ UNCHANGED <<db, clock, lastSuccessTime, call, limiter, history>>

NextHandle ==
    \E p \in Procs :
        \/ BeginCacheOp(p)
        \/ TestHandle(p)
        \/ OpenHandle(p)
        \/ QueryHandle(p)
        \/ Reset(p)

SpecHandle == Init /\ [][NextHandle]_vars

(***************************************************************************)
(* Properties of the request pipeline (Spec)                               *)
(***************************************************************************)
Key(p) == <<req[p].videoID, req[p].lang>>

\* The lookup of request p ended with an I/O error (the cache could not be
\* opened or queried), which is neither a hit nor "not found".
LookupFailed(e) == e # "" /\ e # "not found"

\* A lookup step of p that finds the row of its key: p takes the hit branch
\* with the row's transcript, and nothing is fetched or written.
C1_HitStep ==
    \A p \in Procs :
        ( /\ req[p].pc = "lookup"
          /\ req'[p].pc # "lookup"
          /\ Key(p) \in DOMAIN cache
          /\ ~LookupFailed(req'[p].err) )
        => /\ req'[p].pc = "finish"
           /\ req'[p].cached
           /\ req'[p].entry.Transcript = cache[Key(p)].transcript
           /\ req'[p].transcript = cache[Key(p)].transcript
           /\ req'[p].calls = <<>>
           /\ req'[p].writes = 0
           /\ cache' = cache

\* What a request on the hit branch has done and what it answers.
C1_HitState ==
    \A p \in Procs :
        req[p].cached
        => /\ req[p].calls = <<>>
           /\ req[p].writes = 0
           /\ req[p].stored = ""
           /\ req[p].transcript = req[p].entry.Transcript
           /\ req[p].pc = "done" =>
                LET r == req[p].resp
                    body == req[p].entry.Transcript
                    summary == "Summary of: " \o body
                IN  CASE req[p].kind = "handleTranscript" ->
                            r.status = 200 /\ r.cached /\ r.transcript = body
                      [] req[p].kind = "handleSummarize" ->
                            /\ r.status = 200 /\ r.cached
                            /\ \/ r.transcript = body /\ r.summary = ""
                               \/ r.transcript = "" /\ r.summary = summary
                      [] req[p].kind = "runTranscript" ->
                            r.status = 0 /\ r.transcript = body
                      [] req[p].kind = "runSummarize" ->
                            \/ r.status = 0 /\ r.summary = summary
                            \/ r.status = 1 /\ r.summary = ""

\* C1: when the cache holds an entry for (video id, language) and the lookup
\* returns it, the request (handleTranscript, handleSummarize, runTranscript,
\* runSummarize) works on that entry's stored transcript unchanged, reports
\* cached = true, and issues no metadata fetch, no caption fetch and no cache
\* write.
C1_CacheHit == [][C1_HitStep]_vars /\ []C1_HitState

\* A /transcript request has been answered from the cache.
C1_Witness ==
    \E p \in Procs :
        /\ req[p].pc = "done"
        /\ req[p].kind = "handleTranscript"
        /\ req[p].cached
        /\ req[p].resp.cached
        /\ req[p].resp.transcript = "We're no strangers to love"
        /\ Key(p) \in DOMAIN cache

\* The fetch of p fails: p answers with the error and the table is as it was.
C2_FailStep ==
    \A p \in Procs :
        (req[p].pc = "fetch" /\ req'[p].pc # "fetch" /\ req'[p].err # "")
        => /\ req'[p].pc = "done"
           /\ req'[p].writes = 0
           /\ cache' = cache

\* A request past its fetch that holds the fetch's error has ended, with an
\* error answer and without a cache write.
C2_FailState ==
    \A p \in Procs :
        (req[p].pc \in {"store", "finish", "done"} /\ req[p].err # "")
        => /\ req[p].pc = "done"
           /\ ~req[p].cached
           /\ req[p].writes = 0
           /\ req[p].stored = ""
           /\ req[p].resp.status \notin {0, 200}
           /\ req[p].resp.transcript = ""

\* C2: if a request misses and the fetch pipeline fails at any stage
\* (identifier, metadata, classification, selection, caption fetch, empty
\* normalised text), the request leaves the cache store unchanged.
C2_FailedFetchLeavesCache == [][C2_FailStep]_vars /\ []C2_FailState

\* A request has failed at the last stage (the captions normalise to the
\* empty text, after both outbound calls) while the table holds a row.
C2_Witness ==
    \E p \in Procs :
        /\ req[p].pc = "done"
        /\ req[p].err = "failed to parse caption content"
        /\ Len(req[p].calls) = 2
        /\ req[p].writes = 0
        /\ DOMAIN cache # {}

\* A successful cache write of p puts p's fetched transcript under
\* <<video id, requested language>> and touches no other row.
C3_StoreStep ==
    \A p \in Procs :
        (req[p].pc = "store" /\ req'[p].stored = "ok")
        => /\ DOMAIN cache' = DOMAIN cache \cup {Key(p)}
           /\ cache'[Key(p)].transcript = req[p].transcript
           /\ \A k \in DOMAIN cache \ {Key(p)} : cache'[k] = cache[k]

\* A lookup of a key that has a row, when the lookup itself does not fail,
\* is a hit with the row's body and without an outbound call.
C3_NextLookupStep ==
    \A q \in Procs :
        ( /\ req[q].pc = "lookup"
          /\ req'[q].pc # "lookup"
          /\ Key(q) \in DOMAIN cache
          /\ ~LookupFailed(req'[q].err) )
        => /\ req'[q].cached
           /\ req'[q].transcript = cache[Key(q)].transcript
           /\ req'[q].calls = <<>>

\* C3: on a miss with a successful fetch the transcript is written under the
\* key (video id, requested language L), also when the selected track's
\* language differs from L; the next request for (id, L) is a hit that
\* returns the same body without contacting the upstream.
C3_WrittenUnderRequestedLanguage == [][C3_StoreStep /\ C3_NextLookupStep]_vars

\* p asked for one language, got a track of another and stored it; q asked
\* for the same key and was served p's body from the cache.
C3_Witness ==
    \E p, q \in Procs :
        /\ p # q
        /\ req[p].stored = "ok"
        /\ req[p].trackLang # req[p].lang
        /\ Key(q) = Key(p)
        /\ req[q].cached
        /\ req[q].transcript = req[p].transcript
        /\ req[q].calls = <<>>

\* C4: every successful freshly fetched result tells the caller the language
\* code of the track actually returned, which may differ from the requested
\* one.
C4_ReportsTrackLanguage ==
    \A p \in Procs :
        (req[p].pc = "done" /\ req[p].resp.status = 200 /\ ~req[p].cached)
        => req[p].resp.language = req[p].trackLang

\* A successful write of p leaves exactly p's row under its key, whole, and
\* adds a row only if the key had none.
C6_WriteStep ==
    \A p \in Procs :
        (req[p].pc = "store" /\ req'[p].stored = "ok")
        => /\ cache'[Key(p)] = [title |-> "", transcript |-> req[p].transcript]
           /\ Cardinality(DOMAIN cache') =
                Cardinality(DOMAIN cache) + (IF Key(p) \in DOMAIN cache THEN 0 ELSE 1)

\* Every request on the miss branch makes its own outbound calls and its own
\* write, whatever another request for the key is doing; after two such
\* requests the key's row is one of the two bodies.
C6_EachFetchesAndWrites ==
    /\ \A p \in Procs :
        /\ req[p].pc = "store" => Len(req[p].calls) = 2 /\ req[p].writes = 0
        /\ (req[p].pc = "finish" /\ ~req[p].cached)
             => Len(req[p].calls) = 2 /\ req[p].writes = 1
    /\ \A p, q \in Procs :
        ( /\ p # q /\ Key(p) = Key(q)
          /\ req[p].pc = "finish" /\ req[q].pc = "finish"
          /\ req[p].stored = "ok" /\ req[q].stored = "ok" )
        => /\ Key(p) \in DOMAIN cache
           /\ cache[Key(p)].transcript \in {req[p].transcript, req[q].transcript}
           /\ cache[Key(p)].title = ""

\* C6: two concurrent requests that both miss on the same key are not
\* coalesced: both fetch upstream and both write; the final entry is exactly
\* the value of the write that happened last (a whole entry, never a mix),
\* and Count has grown by one, not two.
C6_ConcurrentMisses == [][C6_WriteStep]_vars /\ []C6_EachFetchesAndWrites

\* Two requests for one key have both fetched and both written different
\* bodies; the table has the one row, holding the second body.
C6_Witness ==
    \E p, q \in Procs :
        /\ p # q /\ Key(p) = Key(q)
        /\ req[p].pc = "finish" /\ req[q].pc = "finish"
        /\ ~req[p].cached /\ ~req[q].cached
        /\ req[p].stored = "ok" /\ req[q].stored = "ok"
        /\ Len(req[p].calls) = 2 /\ Len(req[q].calls) = 2
        /\ req[p].transcript # req[q].transcript
        /\ cache[Key(p)].transcript = req[q].transcript
        /\ Cardinality(DOMAIN cache) = 1

(***************************************************************************)
(* Properties of the functions called on their own (SpecFn)                *)
(***************************************************************************)
\* C5: on a cache miss the caption track is selected with the language the
\* caller supplied: for every requested language L and every track list the
\* metadata fetch returns, the track whose content is fetched is the one
\* selectCaptionTrack(tracks, L) returns.
C5_SelectsWithRequestedLanguage ==
    (call.op = "missBranch" /\ Len(call.calls) = 2)
    => call.calls[2] = [method |-> "GET",
                        target |-> selectCaptionTrack(call.m.pr.tracks, call.lang).track.BaseURL]

\* The metadata of the call arrived and parsed.
MetadataFetched(m) == m.net = "" /\ m.status = 200 /\ m.json

\* C7: whenever the classification of the metadata is not Playable, the
\* pipeline stops before track selection: no caption content is fetched and
\* the error returned is the classifier's.
C7_NotPlayableStops ==
    ( /\ call.op = "fetchTranscriptDirect"
      /\ call.calls # <<>>
      /\ MetadataFetched(call.m)
      /\ checkPlayability(call.m.pr) # "" )
    => /\ call.err = checkPlayability(call.m.pr)
       /\ \A i \in 1..Len(call.calls) : call.calls[i].method # "GET"
       /\ Len(call.calls) = 1
       /\ call.result = NilFetchResult

\* A login-required video with two caption tracks, whose captions would
\* have been served: the pipeline ended after the metadata call.
C7_Witness ==
    /\ call.op = "fetchTranscriptDirect"
    /\ MetadataFetched(call.m)
    /\ call.m.pr.status = "LOGIN_REQUIRED"
    /\ Len(call.m.pr.tracks) = 2
    /\ call.c.net = "" /\ call.c.status = 200 /\ call.c.body # <<>>
    /\ Len(call.calls) = 1
    /\ call.err = "age-restricted video"

LiveStreamError == "live streams are not supported"

\* C8: classification as live stream is independent of the status: whenever
\* the metadata carries a non-empty live marker, checkPlayability reports the
\* live-stream error, whatever the status is.
C8_LiveWhateverStatus ==
    (call.op = "checkPlayability" /\ call.pr.live # "") => call.err = LiveStreamError

\* "age" occurs in the reason, letter case aside.
ContainsAge(reason) ==
    \E i \in 1..(Len(reason) - 2) :
        /\ SubSeq(reason, i, i) \in {"a", "A"}
        /\ SubSeq(reason, i + 1, i + 1) \in {"g", "G"}
        /\ SubSeq(reason, i + 2, i + 2) \in {"e", "E"}

\* C9: checkPlayability is a function of (status, reason, live marker):
\* UNPLAYABLE gives the unavailable error; LOGIN_REQUIRED gives age-restricted
\* iff the reason contains "age" case-insensitively, else login-required;
\* ERROR gives the generic error with the reason verbatim; any other status
\* with an empty live marker gives no error.
C9_StatusMapping ==
    call.op = "checkPlayability"
    => LET pr == call.pr
       IN  CASE pr.status = "UNPLAYABLE" -> call.err = "Private video or unavailable"
             [] pr.status = "LOGIN_REQUIRED" ->
                    /\ call.err \in {"age-restricted video",
                                     "login required to view this video"}
                    /\ call.err = "age-restricted video" <=> ContainsAge(pr.reason)
             [] pr.status = "ERROR" -> call.err = "video error: " \o pr.reason
             [] OTHER -> pr.live = "" => call.err = ""

\* A login-required video whose reason has "age" inside a word and in
\* mixed case is classified as age-restricted.
C9_Witness ==
    /\ call.op = "checkPlayability"
    /\ call.pr.status = "LOGIN_REQUIRED"
    /\ call.pr.reason = "See the help pAge"
    /\ call.err = "age-restricted video"

\* The part of lang before its first "-" (all of it when it has none).
BaseSubtag(lang) ==
    LET dashes == {i \in 1..Len(lang) : SubSeq(lang, i, i) = "-"}
    IN  IF dashes = {} THEN lang
        ELSE SubSeq(lang, 1, (CHOOSE i \in dashes : \A j \in dashes : i <= j) - 1)

\* code begins with lang.
BeginsWith(code, lang) ==
    Len(code) >= Len(lang) /\ SubSeq(code, 1, Len(lang)) = lang

\* The first position of the list whose code passes the earliest rule any
\* code of the list passes.
ExpectedIndex(codes, lang) ==
    LET all == 1..Len(codes)
        rule1 == {i \in all : codes[i] = lang}
        rule2 == {i \in all : BeginsWith(codes[i], lang)}
        rule3 == {i \in all : codes[i] = BaseSubtag(lang)}
        rule == IF rule1 # {} THEN rule1
                ELSE IF rule2 # {} THEN rule2
                ELSE IF rule3 # {} THEN rule3
                ELSE all
    IN  CHOOSE i \in rule : \A j \in rule : i <= j

C11_FailsIffEmpty ==
    call.op = "selectCaptionTrack"
    => /\ call.err # "" <=> Len(call.tracks) = 0
       /\ call.err # "" => /\ call.err = "no subtitles available for this video"
                           /\ call.track = NilTrack
       /\ call.err = "" => \E i \in 1..Len(call.tracks) : call.track = call.tracks[i]

\* A list none of whose codes is related to the preferred language: a track
\* of the list is returned all the same.
C11_Witness ==
    /\ call.op = "selectCaptionTrack"
    /\ call.lang = "fr"
    /\ Len(call.tracks) = 2
    /\ call.err = ""
    /\ call.track \in {call.tracks[1], call.tracks[2]}

\* s is 11 characters of the identifier alphabet.
ValidIdentifier(s) ==
    /\ Len(s) = 11
    /\ \A i \in 1..Len(s) :
        \E j \in 1..64 :
            SubSeq(s, i, i) =
                SubSeq("ABCDEFGHIJKLMNOPQRSTUVWXYZabcdefghijklmnopqrstuvwxyz0123456789_-", j, j)

\* C12: every identifier extractVideoID returns is exactly 11 characters of
\* [A-Za-z0-9_-], and an input (a URL of a supported shape, or a bare string)
\* whose identifier has another length or a character outside the alphabet is
\* a resolution failure, not a success with a shortened or altered
\* identifier.
C12_ElevenCharactersOrFailure ==
    call.op = "extractVideoID"
    => /\ call.err = "" => ValidIdentifier(call.id)
       /\ (Len(call.parts) = 0 /\ ~ValidIdentifier(call.url)) => call.err # ""
       /\ (Len(call.parts) = 1 /\ ~ValidIdentifier(call.parts[1].id)) => call.err # ""

\* The position of a literal's pattern in the order the patterns are tried.
PatternRank(literal) ==
    CASE literal = "youtube.com/watch?v=" -> 1
      [] literal = "youtu.be/" -> 2
      [] literal \in {"youtube.com/embed/", "youtube.com/v/"} -> 3
      [] literal = "youtube.com/shorts/" -> 4
      [] literal = "youtube.com/live/" -> 5

\* C13: for each supported URL shape carrying a valid 11-character
\* identifier, extractVideoID returns exactly that identifier whether or not
\* extra query parameters follow it; the patterns are tried in priority order
\* and the first matching pattern decides; a bare string is accepted only
\* when no pattern matches and it is itself exactly 11 valid characters.
C13_ShapesAndPriority ==
    call.op = "extractVideoID"
    => LET parts == call.parts
           valid == {i \in 1..Len(parts) : ValidIdentifier(parts[i].id)}
           best == CHOOSE i \in valid :
                       \A j \in valid :
                           \/ PatternRank(parts[i].literal) < PatternRank(parts[j].literal)
                           \/ /\ PatternRank(parts[i].literal) = PatternRank(parts[j].literal)
                              /\ i <= j
       IN  /\ (Len(parts) = 1 /\ valid # {}) => call.err = "" /\ call.id = parts[1].id
           /\ (Len(parts) = 2 /\ valid = {1, 2}) => call.err = "" /\ call.id = parts[best].id
           /\ Len(parts) = 0 =>
                IF ValidIdentifier(call.url) THEN call.err = "" /\ call.id = call.url
                ELSE call.err # "" /\ call.id = ""

\* A short link that names a watch URL in its query: the watch pattern is
\* tried first and decides.
C13_Witness ==
    /\ call.op = "extractVideoID"
    /\ call.url = "https://youtu.be/dQw4w9WgXcQ?next=youtube.com/watch?v=a_-4w9WgXc0"
    /\ call.err = ""
    /\ call.id = "a_-4w9WgXc0"

\* The texts of a document's lines that carry text, in order.
CaptionTexts(doc) ==
    LET HasText(line) == line.text # ""
        lines == SelectSeq(doc, HasText)
    IN  [i \in 1..Len(lines) |-> lines[i].text]

\* The texts that differ from the text just before them.
AdjacentDistinct(texts) ==
    LET Differs(i) == i = 1 \/ texts[i] # texts[i - 1]
        at == SelectSeq([i \in 1..Len(texts) |-> i], Differs)
    IN  [k \in 1..Len(at) |-> texts[at[k]]]

\* The lines with one space between each two, built from the left.
RECURSIVE SpaceJoined(_, _)
SpaceJoined(lines, n) ==
    IF n = 0 THEN ""
    ELSE IF n = 1 THEN lines[1]
    ELSE SpaceJoined(lines, n - 1) \o " " \o lines[n]

\* C14: among the lines the normaliser keeps (parseTimedText, cleanSRT) no
\* two consecutive ones are equal, and suppression is adjacent-only: a line
\* equal to an earlier kept line is kept when a different kept line lies
\* between them.  The output is the kept lines joined by single spaces.
C14_AdjacentDuplicatesOnly ==
    call.op \in {"parseTimedText", "cleanSRT"}
    => /\ \A i \in 1..(Len(call.lines) - 1) : call.lines[i] # call.lines[i + 1]
       /\ call.lines = AdjacentDistinct(CaptionTexts(call.doc))
       /\ call.out = SpaceJoined(call.lines, Len(call.lines))

\* The texts a, a, b & c, a: the repeated a is dropped once, the last a
\* kept.
C14_Witness ==
    /\ call.op = "parseTimedText"
    /\ CaptionTexts(call.doc) = <<"a", "a", "b & c", "a">>
    /\ call.lines = <<"a", "b & c", "a">>
    /\ call.out = "a b & c a"

ParseFailure == "failed to parse caption content"
NoSubtitles == "no subtitles available for this video"

\* The call got as far as the track list: the identifier resolved, the
\* metadata arrived and the video is playable.
ReachedTracks ==
    /\ call.calls # <<>>
    /\ MetadataFetched(call.m)
    /\ checkPlayability(call.m.pr) = ""

\* C15: when normalisation of the fetched caption content yields the empty
\* text the pipeline fails with the parse-failure error, which differs from
\* the no-captions error of an empty track list; the no-captions error is
\* raised before any caption content is fetched, the parse failure only
\* after one fetch.
C15_ParseFailureNotNoCaptions ==
    call.op = "fetchTranscriptDirect"
    => /\ (ReachedTracks /\ Len(call.m.pr.tracks) = 0)
            => call.err = NoSubtitles /\ Len(call.calls) = 1
       /\ call.err = NoSubtitles => \A i \in 1..Len(call.calls) : call.calls[i].method # "GET"
       /\ ( /\ ReachedTracks /\ Len(call.m.pr.tracks) > 0
            /\ call.c.net = "" /\ call.c.status = 200
            /\ call.c.body = <<"<transcript>", "</transcript>">> )
            => call.err = ParseFailure
       /\ call.err = ParseFailure
            => /\ Len(call.calls) = 2
               /\ call.calls[2].method = "GET"
               /\ call.c.net = "" /\ call.c.status = 200 /\ call.c.body # <<>>
       /\ handleFetchError(ParseFailure, "").error # handleFetchError(NoSubtitles, "").error

\* A playable video with tracks whose caption document holds no caption
\* element: the call fails with the parse failure after the caption GET.
C15_Witness ==
    /\ call.op = "fetchTranscriptDirect"
    /\ ReachedTracks
    /\ Len(call.m.pr.tracks) = 2
    /\ call.c.body = <<"<transcript>", "</transcript>">>
    /\ call.err = ParseFailure
    /\ Len(call.calls) = 2

\* The kind of the taxonomy an error of the pipeline belongs to ("" for an
\* error outside the kinds compared here).
ErrorKind(e) ==
    CASE e = "Private video or unavailable" -> "VideoUnavailable"
      [] e = "age-restricted video" -> "AgeRestricted"
      [] e = "login required to view this video" -> "LoginRequired"
      [] e = LiveStreamError -> "LiveStreamUnsupported"
      [] e = NoSubtitles -> "NoCaptions"
      [] e = "rate limited by YouTube (429)" -> "RateLimited"
      [] e = ParseFailure -> "ParseFailed"
      [] e \in {"innertube API error: status 500",
                "failed to fetch player response: dial tcp: i/o timeout",
                "failed to fetch captions: connection reset by peer",
                "failed to fetch captions: status 404"} -> "UpstreamError"
      [] OTHER -> ""

\* C16: each error kind of the taxonomy reaches the client as its own kind:
\* no two of VideoUnavailable, AgeRestricted, LoginRequired, LiveStream-
\* Unsupported, NoCaptions, RateLimited, UpstreamError/TransportError and
\* ParseFailed are reported under the same error code.
C16_KindsKeepOwnCode ==
    (call.op = "handleFetchError" /\ ErrorKind(call.err) # "")
    => \A e \in PipelineErrors :
          (ErrorKind(e) # "" /\ ErrorKind(e) # ErrorKind(call.err))
          => handleFetchError(e, "dQw4w9WgXcQ").error # call.resp.error

(***************************************************************************)
(* C17.  The cache store keeps languages apart.  A read that the disk does *)
(* not fail returns, for a key written before, exactly the video, the      *)
(* language, the title and the body of the last successful write under     *)
(* that very key, whatever was written under other keys since (another     *)
(* language of the same video included); for a key never written it        *)
(* returns not-found.                                                      *)
(***************************************************************************)
C17_LanguagesIndependent ==
    (call.op = "getCachedTranscript" /\ ~call.fault) =>
        LET key == <<call.videoID, call.language>>
        IN  IF key \in DOMAIN history.written
                THEN /\ call.err = ""
                     /\ call.entry = [VideoID |-> call.videoID,
                                      Language |-> call.language,
                                      Title |-> history.written[key].title,
                                      Transcript |-> history.written[key].transcript]
                ELSE /\ call.err = "not found"
                     /\ call.entry = NilEntry

\* A read of the Spanish row of a video returns it while the English row of
\* the same video holds another title and body.
C17_Witness ==
    /\ call.op = "getCachedTranscript"
    /\ ~call.fault
    /\ call.language = "es"
    /\ call.err = ""
    /\ <<call.videoID, "en">> \in DOMAIN history.written
    /\ history.written[<<call.videoID, "en">>].title # call.entry.Title
    /\ history.written[<<call.videoID, "en">>].transcript # call.entry.Transcript

(***************************************************************************)
(* C18.  The count getCacheStats returns is the number of distinct         *)
(* (video, language) keys written successfully so far.  A successful write *)
(* under a key already present replaces its title and body and leaves the  *)
(* number of rows as it was; one under a new key adds one row; no step     *)
(* removes a row.                                                          *)
(***************************************************************************)
C18_CountsDistinctKeys ==
    [][/\ DOMAIN cache \subseteq DOMAIN cache'
       /\ (call'.op = "getCacheStats" /\ ~call'.fault) =>
              /\ call'.err = ""
              /\ call'.count = Cardinality(DOMAIN history'.written)
       /\ (call'.op = "cacheTranscript" /\ call'.err = "") =>
              LET key == <<call'.videoID, call'.language>>
              IN  /\ cache'[key] = [title |-> call'.title,
                                    transcript |-> call'.transcript]
                  /\ Cardinality(DOMAIN cache') =
                        Cardinality(DOMAIN cache) + (IF key \in DOMAIN cache THEN 0 ELSE 1)
                  /\ \A k \in DOMAIN cache \ {key} : cache'[k] = cache[k]]_vars

\* The count is 3 with both languages of one video and one of the other
\* written, one of them twice.
C18_Witness ==
    /\ call.op = "getCacheStats"
    /\ ~call.fault
    /\ call.count = 3
    /\ DOMAIN history.written =
          {<<"dQw4w9WgXcQ", "en">>, <<"dQw4w9WgXcQ", "es">>, <<"abc123xyz99", "en">>}
    /\ history.written[<<"dQw4w9WgXcQ", "en">>].title = "Title v2"

\* The URL a request carried names no video: it is missing (as it also is
\* when the body is not JSON), or it holds none of the URL shapes and is not
\* a bare identifier.
NoIdentifier(url) ==
    \/ url = ""
    \/ /\ ~ValidIdentifier(url)
       /\ \A i \in 1..Len(URLPatterns) : \A literal \in URLPatterns[i] :
              ~Contains(url, literal)

(***************************************************************************)
(* C19.  An HTTP request whose body is not JSON, has no url, or has a url  *)
(* that names no video ends in the step that parses it, with status 400    *)
(* and code invalid_request: it has made no cache read, no cache write and *)
(* no upstream call, and the step leaves the cache, the database handle    *)
(* and the health clock as they were.                                      *)
(***************************************************************************)
C19_InvalidRequestStopsFirst ==
    [][\A p \in Procs :
          (req[p].pc = "idle" /\ req'[p].kind \in HTTPKinds /\ NoIdentifier(req'[p].url)) =>
              /\ req'[p].pc = "done"
              /\ req'[p].resp.status = 400
              /\ req'[p].resp.error = "invalid_request"
              /\ req'[p].reads = 0
              /\ req'[p].writes = 0
              /\ req'[p].calls = <<>>
              /\ cache' = cache
              /\ db' = db
              /\ lastSuccessTime' = lastSuccessTime]_vars

\* A request with an unresolvable URL is answered 400 while the cache holds
\* a row of an earlier request.
C19_Witness ==
    \E p \in Procs :
        /\ req[p].pc = "done"
        /\ req[p].kind \in HTTPKinds
        /\ req[p].url = "not-a-valid-url"
        /\ req[p].resp.status = 400
        /\ req[p].resp.error = "invalid_request"
        /\ req[p].calls = <<>>
        /\ cache # <<>>

(***************************************************************************)
(* C20.  While no time has passed since the limiter started, the requests  *)
(* of one client IP are allowed (the wrapped handler runs) exactly up to   *)
(* the fifth; every later one is answered 429 rate_limited with a          *)
(* Retry-After header and the wrapped handler does not run.  The count is  *)
(* per IP: what another IP has used makes no difference.                   *)
(***************************************************************************)
C20_BurstPerIP ==
    (call.op = "rateLimitMiddleware" /\ ~history.elapsed) =>
        IF history.seen[call.ip] <= 5
            THEN /\ call.next
                 /\ call.status # 429
                 /\ limiter.limiters[call.ip].tokens = 5 - history.seen[call.ip]
            ELSE /\ ~call.next
                 /\ call.status = 429
                 /\ call.error = "rate_limited"
                 /\ call.retryAfter # ""

\* The sixth request of one IP is rejected while another IP, two requests
\* in, keeps the three it has left.
C20_Witness ==
    /\ call.op = "rateLimitMiddleware"
    /\ ~history.elapsed
    /\ call.ip = "192.168.1.1"
    /\ history.seen["192.168.1.1"] = 6
    /\ call.status = 429
    /\ ~call.next
    /\ "192.168.1.2" \in DOMAIN history.seen
    /\ history.seen["192.168.1.2"] = 2
    /\ limiter.limiters["192.168.1.2"].tokens = 3

(***************************************************************************)
(* C21.  With an API key configured the wrapped handler runs only for a    *)
(* request whose X-API-Key header is the key or, that header absent, whose *)
(* Authorization header is "Bearer " followed by the key; every other      *)
(* request is answered 401 and the handler does not run.  With no key      *)
(* configured every request passes.                                        *)
(***************************************************************************)
C21_KeyOrBearerOnly ==
    call.op = "authMiddleware" =>
        LET entitled == \/ call.apiKey = ""
                        \/ call.xAPIKey = call.apiKey
                        \/ /\ call.xAPIKey = ""
                           /\ call.authorization = "Bearer " \o call.apiKey
        IN  /\ call.next <=> entitled
            /\ ~entitled => call.status = 401

(***************************************************************************)
(* C22.  GET /health always answers 200.  Its status is "unhealthy" when   *)
(* the count query fails; "degraded" when the cache answers and the last   *)
(* success, in whole seconds as the response reports its age, is more than *)
(* 3600 seconds old; "ok" otherwise.  A server that has not yet recorded a *)
(* success is never "degraded".                                            *)
(***************************************************************************)
C22_HealthStatus ==
    call.op = "handleHealth" =>
        /\ call.resp.http = 200
        /\ call.resp.status =
              IF call.fault THEN "unhealthy"
              ELSE IF call.last # 0 /\ (call.now - call.last) \div 2 > 3600 THEN "degraded"
              ELSE "ok"
        /\ call.last = 0 => call.resp.status # "degraded"

\* More than an hour after the server started, with no success recorded and
\* the cache answering, the status is "ok".
C22_Witness ==
    /\ call.op = "handleHealth"
    /\ ~call.fault
    /\ call.last = 0
    /\ (call.now - serverStartTime) \div 2 > 3600
    /\ call.resp.status = "ok"

(***************************************************************************)
(* C28.  lastSuccessTime never moves backward: every step leaves it        *)
(* greater than or equal to what it was.                                   *)
(***************************************************************************)
C28_NeverMovesBackward == [][lastSuccessTime' >= lastSuccessTime]_vars

C24_AtMostOneOfEach ==
    \A p \in Procs :
        LET r == req[p]
        IN  /\ Len(r.calls) <= 2
            /\ Len(r.calls) >= 1 => r.calls[1].method = "POST"
            /\ Len(r.calls) = 2 => r.calls[2].method = "GET" /\ r.ready
            /\ r.reads <= 1
            /\ r.writes <= 1
            /\ r.writes = 1 => r.reads = 1
            /\ r.calls # <<>> => r.reads = 1

\* A request that has made all four: the read, the POST, the GET, the write.
C24_Witness ==
    \E p \in Procs :
        /\ req[p].pc = "done"
        /\ req[p].reads = 1
        /\ req[p].writes = 1
        /\ Len(req[p].calls) = 2
        /\ req[p].calls[1].method = "POST"
        /\ req[p].calls[2].method = "GET"

\* The content holds the root marker of one of the XML dialects.
HasXMLRootMarker(content) ==
    ContentContains(content, "<timedtext") \/ ContentContains(content, "<transcript")

(***************************************************************************)
(* C25.  The dispatch looks at the XML root marker only: content that      *)
(* holds it is parsed as XML, content that does not is cleaned by the      *)
(* line-oriented rules.                                                    *)
(***************************************************************************)
C25_DispatchOnRootMarker ==
    call.op = "normalize" =>
        call.out = IF HasXMLRootMarker(call.content) THEN call.xml ELSE call.lineOriented

(***************************************************************************)
(* C26.  The error code the client gets is decided by the stage that       *)
(* failed, whatever the reason text of the platform: no_captions exactly   *)
(* when a playable video lists no track, video_unavailable exactly for     *)
(* status UNPLAYABLE, age_restricted exactly for LOGIN_REQUIRED with an    *)
(* age reason, rate_limited exactly when an upstream call answered 429; a  *)
(* video in status ERROR is reported scrape_failed.                        *)
(***************************************************************************)
C26_CodeFollowsStage ==
    (call.op = "missBranch" /\ call.err # "") =>
        LET fetched == MetadataFetched(call.m)
            pr == call.m.pr
            code == call.resp.error
        IN  /\ code = "no_captions" <=>
                  (fetched /\ pr.status \notin {"UNPLAYABLE", "LOGIN_REQUIRED", "ERROR"}
                     /\ pr.live = "" /\ Len(pr.tracks) = 0)
            /\ code = "video_unavailable" <=> (fetched /\ pr.status = "UNPLAYABLE")
            /\ code = "age_restricted" <=>
                  (fetched /\ pr.status = "LOGIN_REQUIRED" /\ ContainsAge(pr.reason))
            /\ code = "rate_limited" <=>
                  \/ call.m.net = "" /\ call.m.status = 429
                  \/ Len(call.calls) = 2 /\ call.c.net = "" /\ call.c.status = 429
            /\ (fetched /\ pr.status = "ERROR") => code = "scrape_failed"

(***************************************************************************)
(* C27.  The cache handle is initialised at most once: whatever the        *)
(* interleaving of the first cache operations, sql.Open is called at most  *)
(* once and every operation's statement goes through the same handle.      *)
(***************************************************************************)
C27_HandleOpenedOnce ==
    /\ history.opens <= 1
    /\ \A p, q \in Procs :
          (req[p].db # "nil" /\ req[q].db # "nil") => req[p].db = req[q].db

\* A cache write of p fails: the table is as it was and p goes on with the
\* transcript it fetched.
C29_FailedStoreStep ==
    \A p \in Procs :
        (req[p].pc = "store" /\ req'[p].pc # "store" /\ req'[p].stored = "failed")
        => /\ cache' = cache
           /\ req'[p].pc = "finish"
           /\ req'[p].transcript = req[p].transcript
           /\ ~req'[p].cached

\* A lookup of a key without a row goes on to the fetch.
C29_MissStep ==
    \A q \in Procs :
        (req[q].pc = "lookup" /\ req'[q].pc # "lookup" /\ Key(q) \notin DOMAIN cache)
        => /\ req'[q].pc = "fetch"
           /\ ~req'[q].cached

\* What a request whose cache write failed answers.
C29_FailedStoreState ==
    \A p \in Procs :
        (req[p].stored = "failed" /\ req[p].pc = "done")
        => LET r == req[p].resp
               body == req[p].transcript
           IN  /\ body # ""
               /\ CASE req[p].kind = "handleTranscript" ->
                           r.status = 200 /\ ~r.cached /\ r.transcript = body
                     [] req[p].kind = "handleSummarize" ->
                           /\ r.status = 200 /\ ~r.cached
                           /\ IF req[p].llmErr # "" THEN r.transcript = body
                              ELSE r.summary = "Summary of: " \o body
                     [] req[p].kind = "runTranscript" ->
                           r.status = 0 /\ r.transcript = body
                     [] req[p].kind = "runSummarize" ->
                           IF req[p].llmErr # "" THEN r.status = 1
                           ELSE r.status = 0 /\ r.summary = "Summary of: " \o body

(***************************************************************************)
(* C29.  A cache write that fails after a successful fetch does not fail   *)
(* the request: the handlers and the commands go on with the transcript    *)
(* just fetched and answer with it, cached = false; the failed write       *)
(* leaves the table as it was, and a later lookup of a key that has no row *)
(* is a miss that goes to the upstream fetch.                              *)
(***************************************************************************)
C29_WriteFailureTolerated ==
    [][C29_FailedStoreStep /\ C29_MissStep]_vars /\ []C29_FailedStoreState

\* A /transcript request answered 200 with the fetched transcript after its
\* cache write failed; the table has no row for its key.
C29_Witness ==
    \E p \in Procs :
        /\ req[p].pc = "done"
        /\ req[p].kind = "handleTranscript"
        /\ req[p].stored = "failed"
        /\ req[p].resp.status = 200
        /\ req[p].resp.transcript = req[p].transcript
        /\ req[p].resp.transcript # ""
        /\ ~req[p].resp.cached
        /\ Key(p) \notin DOMAIN cache

\* Whatever error the lookup of p returns, p goes on to the fetch.
C30_LookupErrorStep ==
    \A p \in Procs :
        (req[p].pc = "lookup" /\ req'[p].pc # "lookup" /\ req'[p].err # "")
        => /\ req'[p].pc = "fetch"
           /\ ~req'[p].cached
           /\ req'[p].calls = <<>>
           /\ cache' = cache

\* A successful write under a key that has a row replaces the row by what
\* the request fetched.
C30_OverwriteStep ==
    \A p \in Procs :
        (req[p].pc = "store" /\ req'[p].stored = "ok" /\ Key(p) \in DOMAIN cache)
        => /\ cache'[Key(p)] = [title |-> "", transcript |-> req[p].transcript]
           /\ DOMAIN cache' = DOMAIN cache

(***************************************************************************)
(* C30.  Every error of the cache lookup, a failed open or a failed query  *)
(* as much as not-found, is taken for a miss: the request goes on to the   *)
(* upstream fetch instead of failing, and when its write then succeeds the *)
(* row the key already had is replaced by the fresh result.                *)
(***************************************************************************)
C30_LookupErrorIsMiss == [][C30_LookupErrorStep /\ C30_OverwriteStep]_vars

\* The table holds a row for p's key, yet p's lookup failed on the query and
\* p stands before the upstream fetch.
C30_Witness ==
    \E p \in Procs :
        /\ req[p].pc = "fetch"
        /\ req[p].err = "failed to query cache: disk I/O error"
        /\ req[p].reads = 1
        /\ ~req[p].cached
        /\ Key(p) \in DOMAIN cache

====
